---- MODULE Spec2Model ----
(***************************************************************************)
(* Fresh Market: the SQLite store filled by DatabaseMigrator (database.py) *)
(* and the order-entry form of FreshMarketApp (tinker.py).                 *)
(*                                                                         *)
(* Texts typed in the form are sequences of one-character strings, so     *)
(* that strip / replace / int() / float() are computed, not assumed.       *)
(* Dates are day numbers (the "%Y-%m-%d" text of a day orders as the day   *)
(* number does). A CSV price is in hundredths of the currency unit;       *)
(* the REAL value a float() call yields is a record (class, sign,          *)
(* mantissa, exponent), so that overflow, underflow, inf and nan exist.    *)
(***************************************************************************)
EXTENDS Integers, Sequences, FiniteSets, TLC

\* ------------------------------------------------------------------ bounds
MaxCsvLen == 2      \* rows of one CSV file
MaxPedidos == 2     \* orders committed through the form
MaxCargas == 2      \* bulk loads
MaxSeq == 5         \* ids handed out by a reference table's counter
MaxNombres == 2     \* names in the column of one resolution
Hoy == 3            \* the day the run starts on (the CSV rows are dated 1 and 2)

\* ------------------------------------------------------- program constants
StockMinimo == 10        \* low-stock threshold of the replenishment advisory
StockMedio == 20         \* first quantity above the medium tier

\* ---------------------------------------------------------------- universe
Apps == {"ui1", "ui2"}
Cities == {"Bogota", "Cali"}
Products == {"Frutas", "Lacteos"}
Estados == {"Entregado", "Retrasado", "Cancelado", "En transito"}

\* ------------------------------------------------------------ text helpers
\* A character is a one-character string; a character outside ASCII is
\* written as its code point ("U+00A0").
\* The characters str.strip() takes for blanks (str.isspace).
Blancos ==
    {" ", "\t", "\n", "\r", "\f", "U+000B", "U+001C", "U+001D", "U+001E",
     "U+001F", "U+0085", "U+00A0", "U+1680", "U+2000", "U+2001", "U+2002",
     "U+2003", "U+2004", "U+2005", "U+2006", "U+2007", "U+2008", "U+2009",
     "U+200A", "U+2028", "U+2029", "U+202F", "U+205F", "U+3000"}

\* The blanks int() and float() skip around a number: the ASCII blanks of
\* the C parser and the blanks outside ASCII, which are turned into spaces
\* first; U+001C to U+001F are neither.
BlancosNum == Blancos \ {"U+001C", "U+001D", "U+001E", "U+001F"}

RECURSIVE LStripDe(_, _)
LStripDe(s, B) == IF s # <<>> /\ Head(s) \in B THEN LStripDe(Tail(s), B) ELSE s

RECURSIVE RStripDe(_, _)
RStripDe(s, B) ==
    IF s # <<>> /\ s[Len(s)] \in B THEN RStripDe(SubSeq(s, 1, Len(s) - 1), B) ELSE s

LStrip(s) == LStripDe(s, Blancos)
RStrip(s) == RStripDe(s, Blancos)

\* str.strip()
Strip(s) == RStrip(LStrip(s))

\* the blanks around the text of a number
StripNum(s) == RStripDe(LStripDe(s, BlancosNum), BlancosNum)

\* str.replace(ch, "")
Quitar(s, ch) == SelectSeq(s, LAMBDA c : c # ch)

\* The decimal digits (Unicode 14 category Nd, 66 scripts): row i holds the
\* digits 0 to 9 of one script; int() and float() read each as its value.
DigitosNd ==
    <<<<"0", "1", "2", "3", "4", "5", "6", "7", "8", "9">>,
      <<"U+0660", "U+0661", "U+0662", "U+0663", "U+0664", "U+0665", "U+0666", "U+0667", "U+0668", "U+0669">>,
      <<"U+06F0", "U+06F1", "U+06F2", "U+06F3", "U+06F4", "U+06F5", "U+06F6", "U+06F7", "U+06F8", "U+06F9">>,
      <<"U+07C0", "U+07C1", "U+07C2", "U+07C3", "U+07C4", "U+07C5", "U+07C6", "U+07C7", "U+07C8", "U+07C9">>,
      <<"U+0966", "U+0967", "U+0968", "U+0969", "U+096A", "U+096B", "U+096C", "U+096D", "U+096E", "U+096F">>,
      <<"U+09E6", "U+09E7", "U+09E8", "U+09E9", "U+09EA", "U+09EB", "U+09EC", "U+09ED", "U+09EE", "U+09EF">>,
      <<"U+0A66", "U+0A67", "U+0A68", "U+0A69", "U+0A6A", "U+0A6B", "U+0A6C", "U+0A6D", "U+0A6E", "U+0A6F">>,
      <<"U+0AE6", "U+0AE7", "U+0AE8", "U+0AE9", "U+0AEA", "U+0AEB", "U+0AEC", "U+0AED", "U+0AEE", "U+0AEF">>,
      <<"U+0B66", "U+0B67", "U+0B68", "U+0B69", "U+0B6A", "U+0B6B", "U+0B6C", "U+0B6D", "U+0B6E", "U+0B6F">>,
      <<"U+0BE6", "U+0BE7", "U+0BE8", "U+0BE9", "U+0BEA", "U+0BEB", "U+0BEC", "U+0BED", "U+0BEE", "U+0BEF">>,
      <<"U+0C66", "U+0C67", "U+0C68", "U+0C69", "U+0C6A", "U+0C6B", "U+0C6C", "U+0C6D", "U+0C6E", "U+0C6F">>,
      <<"U+0CE6", "U+0CE7", "U+0CE8", "U+0CE9", "U+0CEA", "U+0CEB", "U+0CEC", "U+0CED", "U+0CEE", "U+0CEF">>,
      <<"U+0D66", "U+0D67", "U+0D68", "U+0D69", "U+0D6A", "U+0D6B", "U+0D6C", "U+0D6D", "U+0D6E", "U+0D6F">>,
      <<"U+0DE6", "U+0DE7", "U+0DE8", "U+0DE9", "U+0DEA", "U+0DEB", "U+0DEC", "U+0DED", "U+0DEE", "U+0DEF">>,
      <<"U+0E50", "U+0E51", "U+0E52", "U+0E53", "U+0E54", "U+0E55", "U+0E56", "U+0E57", "U+0E58", "U+0E59">>,
      <<"U+0ED0", "U+0ED1", "U+0ED2", "U+0ED3", "U+0ED4", "U+0ED5", "U+0ED6", "U+0ED7", "U+0ED8", "U+0ED9">>,
      <<"U+0F20", "U+0F21", "U+0F22", "U+0F23", "U+0F24", "U+0F25", "U+0F26", "U+0F27", "U+0F28", "U+0F29">>,
      <<"U+1040", "U+1041", "U+1042", "U+1043", "U+1044", "U+1045", "U+1046", "U+1047", "U+1048", "U+1049">>,
      <<"U+1090", "U+1091", "U+1092", "U+1093", "U+1094", "U+1095", "U+1096", "U+1097", "U+1098", "U+1099">>,
      <<"U+17E0", "U+17E1", "U+17E2", "U+17E3", "U+17E4", "U+17E5", "U+17E6", "U+17E7", "U+17E8", "U+17E9">>,
      <<"U+1810", "U+1811", "U+1812", "U+1813", "U+1814", "U+1815", "U+1816", "U+1817", "U+1818", "U+1819">>,
      <<"U+1946", "U+1947", "U+1948", "U+1949", "U+194A", "U+194B", "U+194C", "U+194D", "U+194E", "U+194F">>,
      <<"U+19D0", "U+19D1", "U+19D2", "U+19D3", "U+19D4", "U+19D5", "U+19D6", "U+19D7", "U+19D8", "U+19D9">>,
      <<"U+1A80", "U+1A81", "U+1A82", "U+1A83", "U+1A84", "U+1A85", "U+1A86", "U+1A87", "U+1A88", "U+1A89">>,
      <<"U+1A90", "U+1A91", "U+1A92", "U+1A93", "U+1A94", "U+1A95", "U+1A96", "U+1A97", "U+1A98", "U+1A99">>,
      <<"U+1B50", "U+1B51", "U+1B52", "U+1B53", "U+1B54", "U+1B55", "U+1B56", "U+1B57", "U+1B58", "U+1B59">>,
      <<"U+1BB0", "U+1BB1", "U+1BB2", "U+1BB3", "U+1BB4", "U+1BB5", "U+1BB6", "U+1BB7", "U+1BB8", "U+1BB9">>,
      <<"U+1C40", "U+1C41", "U+1C42", "U+1C43", "U+1C44", "U+1C45", "U+1C46", "U+1C47", "U+1C48", "U+1C49">>,
      <<"U+1C50", "U+1C51", "U+1C52", "U+1C53", "U+1C54", "U+1C55", "U+1C56", "U+1C57", "U+1C58", "U+1C59">>,
      <<"U+A620", "U+A621", "U+A622", "U+A623", "U+A624", "U+A625", "U+A626", "U+A627", "U+A628", "U+A629">>,
      <<"U+A8D0", "U+A8D1", "U+A8D2", "U+A8D3", "U+A8D4", "U+A8D5", "U+A8D6", "U+A8D7", "U+A8D8", "U+A8D9">>,
      <<"U+A900", "U+A901", "U+A902", "U+A903", "U+A904", "U+A905", "U+A906", "U+A907", "U+A908", "U+A909">>,
      <<"U+A9D0", "U+A9D1", "U+A9D2", "U+A9D3", "U+A9D4", "U+A9D5", "U+A9D6", "U+A9D7", "U+A9D8", "U+A9D9">>,
      <<"U+A9F0", "U+A9F1", "U+A9F2", "U+A9F3", "U+A9F4", "U+A9F5", "U+A9F6", "U+A9F7", "U+A9F8", "U+A9F9">>,
      <<"U+AA50", "U+AA51", "U+AA52", "U+AA53", "U+AA54", "U+AA55", "U+AA56", "U+AA57", "U+AA58", "U+AA59">>,
      <<"U+ABF0", "U+ABF1", "U+ABF2", "U+ABF3", "U+ABF4", "U+ABF5", "U+ABF6", "U+ABF7", "U+ABF8", "U+ABF9">>,
      <<"U+FF10", "U+FF11", "U+FF12", "U+FF13", "U+FF14", "U+FF15", "U+FF16", "U+FF17", "U+FF18", "U+FF19">>,
      <<"U+104A0", "U+104A1", "U+104A2", "U+104A3", "U+104A4", "U+104A5", "U+104A6", "U+104A7", "U+104A8", "U+104A9">>,
      <<"U+10D30", "U+10D31", "U+10D32", "U+10D33", "U+10D34", "U+10D35", "U+10D36", "U+10D37", "U+10D38", "U+10D39">>,
      <<"U+11066", "U+11067", "U+11068", "U+11069", "U+1106A", "U+1106B", "U+1106C", "U+1106D", "U+1106E", "U+1106F">>,
      <<"U+110F0", "U+110F1", "U+110F2", "U+110F3", "U+110F4", "U+110F5", "U+110F6", "U+110F7", "U+110F8", "U+110F9">>,
      <<"U+11136", "U+11137", "U+11138", "U+11139", "U+1113A", "U+1113B", "U+1113C", "U+1113D", "U+1113E", "U+1113F">>,
      <<"U+111D0", "U+111D1", "U+111D2", "U+111D3", "U+111D4", "U+111D5", "U+111D6", "U+111D7", "U+111D8", "U+111D9">>,
      <<"U+112F0", "U+112F1", "U+112F2", "U+112F3", "U+112F4", "U+112F5", "U+112F6", "U+112F7", "U+112F8", "U+112F9">>,
      <<"U+11450", "U+11451", "U+11452", "U+11453", "U+11454", "U+11455", "U+11456", "U+11457", "U+11458", "U+11459">>,
      <<"U+114D0", "U+114D1", "U+114D2", "U+114D3", "U+114D4", "U+114D5", "U+114D6", "U+114D7", "U+114D8", "U+114D9">>,
      <<"U+11650", "U+11651", "U+11652", "U+11653", "U+11654", "U+11655", "U+11656", "U+11657", "U+11658", "U+11659">>,
      <<"U+116C0", "U+116C1", "U+116C2", "U+116C3", "U+116C4", "U+116C5", "U+116C6", "U+116C7", "U+116C8", "U+116C9">>,
      <<"U+11730", "U+11731", "U+11732", "U+11733", "U+11734", "U+11735", "U+11736", "U+11737", "U+11738", "U+11739">>,
      <<"U+118E0", "U+118E1", "U+118E2", "U+118E3", "U+118E4", "U+118E5", "U+118E6", "U+118E7", "U+118E8", "U+118E9">>,
      <<"U+11950", "U+11951", "U+11952", "U+11953", "U+11954", "U+11955", "U+11956", "U+11957", "U+11958", "U+11959">>,
      <<"U+11C50", "U+11C51", "U+11C52", "U+11C53", "U+11C54", "U+11C55", "U+11C56", "U+11C57", "U+11C58", "U+11C59">>,
      <<"U+11D50", "U+11D51", "U+11D52", "U+11D53", "U+11D54", "U+11D55", "U+11D56", "U+11D57", "U+11D58", "U+11D59">>,
      <<"U+11DA0", "U+11DA1", "U+11DA2", "U+11DA3", "U+11DA4", "U+11DA5", "U+11DA6", "U+11DA7", "U+11DA8", "U+11DA9">>,
      <<"U+16A60", "U+16A61", "U+16A62", "U+16A63", "U+16A64", "U+16A65", "U+16A66", "U+16A67", "U+16A68", "U+16A69">>,
      <<"U+16AC0", "U+16AC1", "U+16AC2", "U+16AC3", "U+16AC4", "U+16AC5", "U+16AC6", "U+16AC7", "U+16AC8", "U+16AC9">>,
      <<"U+16B50", "U+16B51", "U+16B52", "U+16B53", "U+16B54", "U+16B55", "U+16B56", "U+16B57", "U+16B58", "U+16B59">>,
      <<"U+1D7CE", "U+1D7CF", "U+1D7D0", "U+1D7D1", "U+1D7D2", "U+1D7D3", "U+1D7D4", "U+1D7D5", "U+1D7D6", "U+1D7D7">>,
      <<"U+1D7D8", "U+1D7D9", "U+1D7DA", "U+1D7DB", "U+1D7DC", "U+1D7DD", "U+1D7DE", "U+1D7DF", "U+1D7E0", "U+1D7E1">>,
      <<"U+1D7E2", "U+1D7E3", "U+1D7E4", "U+1D7E5", "U+1D7E6", "U+1D7E7", "U+1D7E8", "U+1D7E9", "U+1D7EA", "U+1D7EB">>,
      <<"U+1D7EC", "U+1D7ED", "U+1D7EE", "U+1D7EF", "U+1D7F0", "U+1D7F1", "U+1D7F2", "U+1D7F3", "U+1D7F4", "U+1D7F5">>,
      <<"U+1D7F6", "U+1D7F7", "U+1D7F8", "U+1D7F9", "U+1D7FA", "U+1D7FB", "U+1D7FC", "U+1D7FD", "U+1D7FE", "U+1D7FF">>,
      <<"U+1E140", "U+1E141", "U+1E142", "U+1E143", "U+1E144", "U+1E145", "U+1E146", "U+1E147", "U+1E148", "U+1E149">>,
      <<"U+1E2F0", "U+1E2F1", "U+1E2F2", "U+1E2F3", "U+1E2F4", "U+1E2F5", "U+1E2F6", "U+1E2F7", "U+1E2F8", "U+1E2F9">>,
      <<"U+1E950", "U+1E951", "U+1E952", "U+1E953", "U+1E954", "U+1E955", "U+1E956", "U+1E957", "U+1E958", "U+1E959">>,
      <<"U+1FBF0", "U+1FBF1", "U+1FBF2", "U+1FBF3", "U+1FBF4", "U+1FBF5", "U+1FBF6", "U+1FBF7", "U+1FBF8", "U+1FBF9">>>>

Digitos == {DigitosNd[i][j] : i \in 1..Len(DigitosNd), j \in 1..10}

DigitVal(c) ==
    CHOOSE v \in 0..9 : \E i \in 1..Len(DigitosNd) : DigitosNd[i][v + 1] = c

SoloDigitos(s) == s # <<>> /\ \A i \in 1..Len(s) : s[i] \in Digitos

\* An underscore is accepted between two digits and nowhere else.
GuionesValidos(s) ==
    \A i \in 1..Len(s) :
        s[i] = "_" => /\ 1 < i /\ i < Len(s)
                      /\ s[i - 1] \in Digitos /\ s[i + 1] \in Digitos

SinGuiones(s) == Quitar(s, "_")

SinSigno(s) == IF s # <<>> /\ Head(s) \in {"-", "+"} THEN Tail(s) ELSE s
Signo(s) == IF s # <<>> /\ Head(s) = "-" THEN -1 ELSE 1

\* The digit values of a text of digits; a number written in digit values
\* carries no leading zero.
Valores(s) == [i \in 1..Len(s) |-> DigitVal(s[i])]

SinCerosIniciales(n) ==
    LET nz == {i \in 1..Len(n) : n[i] # 0}
    IN  IF nz = {} THEN <<>>
        ELSE SubSeq(n, CHOOSE i \in nz : \A j \in nz : i <= j, Len(n))

SinCerosFinales(n) ==
    LET nz == {i \in 1..Len(n) : n[i] # 0}
    IN  IF nz = {} THEN <<>>
        ELSE SubSeq(n, 1, CHOOSE i \in nz : \A j \in nz : i >= j)

RECURSIVE Decimal(_)
Decimal(n) ==
    IF n = <<>> THEN 0 ELSE 10 * Decimal(SubSeq(n, 1, Len(n) - 1)) + n[Len(n)]

RECURSIVE CifrasDe(_)
CifrasDe(k) == IF k = 0 THEN <<>> ELSE Append(CifrasDe(k \div 10), k % 10)

\* Two numbers 0.a1a2... and 0.b1b2... compared: -1, 0 or 1.
Cifra(n, i) == IF i <= Len(n) THEN n[i] ELSE 0

CmpCifras(a, b) ==
    LET largo == IF Len(a) >= Len(b) THEN Len(a) ELSE Len(b)
        distintas == {i \in 1..largo : Cifra(a, i) # Cifra(b, i)}
    IN  IF distintas = {} THEN 0
        ELSE LET i == CHOOSE x \in distintas : \A y \in distintas : x <= y
             IN  IF Cifra(a, i) < Cifra(b, i) THEN -1 ELSE 1

\* Python's unbounded int on numbers the model does not hold as integers:
\* a number written in digit values, the most significant first, plus or
\* minus a natural k below 10^9. The last nine digits are computed as an
\* integer; a carry or a borrow goes into the digits before them.
DiezALa9 == 10^9

UltimasNueve(x) == [i \in 1..9 |-> (x \div 10^(9 - i)) % 10]

\* h + 1: the last digit that is not 9 goes up, the 9s after it become 0.
MasUno(h) ==
    LET no9 == {i \in 1..Len(h) : h[i] # 9}
    IN  IF no9 = {} THEN <<1>> \o [i \in 1..Len(h) |-> 0]
        ELSE LET p == CHOOSE i \in no9 : \A j \in (i + 1)..Len(h) : h[j] = 9
             IN  [i \in 1..Len(h) |->
                    IF i < p THEN h[i] ELSE IF i = p THEN h[i] + 1 ELSE 0]

\* h - 1 for h > 0: the last digit that is not 0 goes down, the 0s after it
\* become 9.
MenosUno(h) ==
    LET p == CHOOSE i \in 1..Len(h) : h[i] # 0 /\ \A j \in (i + 1)..Len(h) : h[j] = 0
    IN  SinCerosIniciales([i \in 1..Len(h) |->
                              IF i < p THEN h[i] ELSE IF i = p THEN h[i] - 1 ELSE 9])

\* a + k
SumaCifras(a, k) ==
    IF Len(a) <= 9 THEN CifrasDe(Decimal(a) + k)
    ELSE LET altas == SubSeq(a, 1, Len(a) - 9)
             s == Decimal(SubSeq(a, Len(a) - 8, Len(a))) + k
         IN  (IF s < DiezALa9 THEN altas ELSE MasUno(altas)) \o UltimasNueve(s % DiezALa9)

\* a - k, for a >= k
RestaCifras(a, k) ==
    IF Len(a) <= 9 THEN CifrasDe(Decimal(a) - k)
    ELSE LET altas == SubSeq(a, 1, Len(a) - 9)
             d == Decimal(SubSeq(a, Len(a) - 8, Len(a))) - k
         IN  SinCerosIniciales(
                 IF d >= 0 THEN altas \o UltimasNueve(d)
                 ELSE MenosUno(altas) \o UltimasNueve(d + DiezALa9))

\* An int of Python is unbounded and so is the text of a number. The model
\* holds an integer below 10^9 as itself; Grande stands for every integer
\* from 10^9 to 2^63 - 1, which SQLite still stores, and Enorme for every
\* integer from 2^63 on, which it does not. -Grande and -Enorme likewise,
\* with -2^63 among the first.
Grande == 1000000000
Enorme == Grande + 1
MaxInt64 == <<9, 2, 2, 3, 3, 7, 2, 0, 3, 6, 8, 5, 4, 7, 7, 5, 8, 0, 7>>
MinInt64 == <<9, 2, 2, 3, 3, 7, 2, 0, 3, 6, 8, 5, 4, 7, 7, 5, 8, 0, 8>>

Entero(sg, cifras) ==
    LET n == SinCerosIniciales(cifras)
        tope == IF sg < 0 THEN MinInt64 ELSE MaxInt64
    IN  IF Len(n) <= 9 THEN sg * Decimal(n)
        ELSE IF Len(n) < Len(tope) \/ (Len(n) = Len(tope) /\ CmpCifras(n, tope) <= 0)
        THEN sg * Grande
        ELSE sg * Enorme

\* sys.get_int_max_str_digits(): int() refuses a text of more digits.
MaxStrDigits == 4300

\* int(text): surrounding blanks, a sign, and single underscores between
\* digits are accepted; anything else raises ValueError (ok = FALSE).
ParseInt(t) ==
    LET s == StripNum(t)
        d == SinSigno(s)
        g == SinGuiones(d)
    IN  IF GuionesValidos(d) /\ SoloDigitos(g) /\ Len(g) <= MaxStrDigits
        THEN [ok |-> TRUE, val |-> Entero(Signo(s), Valores(g))]
        ELSE [ok |-> FALSE, val |-> 0]

\* A float is the double nearest to signo * 0.m1m2...mk * 10^(exp + k),
\* held as that decimal: mant = <<m1, ..., mk>> with m1 and mk not 0 (zero
\* is mant = <<>>, exp = 0), or an infinity, or a NaN. exacto: the decimal
\* has at most 15 digits and lies in the normal range, so the double shows
\* as this decimal; otherwise the double is the nearest one and its digits
\* past the 15th are not computed.
Real(c, sg, m, e, x) == [clase |-> c, signo |-> sg, mant |-> m, exp |-> e, exacto |-> x]
Inf(sg) == Real("inf", sg, <<>>, 0, TRUE)
NaN == Real("nan", 1, <<>>, 0, TRUE)
Cero(sg) == Real("finito", sg, <<>>, 0, TRUE)

\* 2^1024 - 2^970, halfway between the largest double and 2^1024: a decimal
\* from it on rounds to an infinity. Its digits; the first counts 10^308.
UmbralInf ==
    <<1, 7, 9, 7, 6, 9, 3, 1, 3, 4, 8, 6, 2, 3, 1, 5, 8, 0, 7, 9, 3, 7, 2,
      8, 9, 7, 1, 4, 0, 5, 3, 0, 3, 4, 1, 5, 0, 7, 9, 9, 3, 4, 1, 3, 2, 7,
      1, 0, 0, 3, 7, 8, 2, 6, 9, 3, 6, 1, 7, 3, 7, 7, 8, 9, 8, 0, 4, 4, 4,
      9, 6, 8, 2, 9, 2, 7, 6, 4, 7, 5, 0, 9, 4, 6, 6, 4, 9, 0, 1, 7, 9, 7,
      7, 5, 8, 7, 2, 0, 7, 0, 9, 6, 3, 3, 0, 2, 8, 6, 4, 1, 6, 6, 9, 2, 8,
      8, 7, 9, 1, 0, 9, 4, 6, 5, 5, 5, 5, 4, 7, 8, 5, 1, 9, 4, 0, 4, 0, 2,
      6, 3, 0, 6, 5, 7, 4, 8, 8, 6, 7, 1, 5, 0, 5, 8, 2, 0, 6, 8, 1, 9, 0,
      8, 9, 0, 2, 0, 0, 0, 7, 0, 8, 3, 8, 3, 6, 7, 6, 2, 7, 3, 8, 5, 4, 8,
      4, 5, 8, 1, 7, 7, 1, 1, 5, 3, 1, 7, 6, 4, 4, 7, 5, 7, 3, 0, 2, 7, 0,
      0, 6, 9, 8, 5, 5, 5, 7, 1, 3, 6, 6, 9, 5, 9, 6, 2, 2, 8, 4, 2, 9, 1,
      4, 8, 1, 9, 8, 6, 0, 8, 3, 4, 9, 3, 6, 4, 7, 5, 2, 9, 2, 7, 1, 9, 0,
      7, 4, 1, 6, 8, 4, 4, 4, 3, 6, 5, 5, 1, 0, 7, 0, 4, 3, 4, 2, 7, 1, 1,
      5, 5, 9, 6, 9, 9, 5, 0, 8, 0, 9, 3, 0, 4, 2, 8, 8, 0, 1, 7, 7, 9, 0,
      4, 1, 7, 4, 4, 9, 7, 7, 9, 2>>
OrdenInf == 308

\* 2^-1075, half the smallest double: a decimal up to it rounds to zero.
UmbralCero ==
    <<2, 4, 7, 0, 3, 2, 8, 2, 2, 9, 2, 0, 6, 2, 3, 2, 7, 2, 0, 8, 8, 2, 8,
      4, 3, 9, 6, 4, 3, 4, 1, 1, 0, 6, 8, 6, 1, 8, 2, 5, 2, 9, 9, 0, 1, 3,
      0, 7, 1, 6, 2, 3, 8, 2, 2, 1, 2, 7, 9, 2, 8, 4, 1, 2, 5, 0, 3, 3, 7,
      7, 5, 3, 6, 3, 5, 1, 0, 4, 3, 7, 5, 9, 3, 2, 6, 4, 9, 9, 1, 8, 1, 8,
      0, 8, 1, 7, 9, 9, 6, 1, 8, 9, 8, 9, 8, 2, 8, 2, 3, 4, 7, 7, 2, 2, 8,
      5, 8, 8, 6, 5, 4, 6, 3, 3, 2, 8, 3, 5, 5, 1, 7, 7, 9, 6, 9, 8, 9, 8,
      1, 9, 9, 3, 8, 7, 3, 9, 8, 0, 0, 5, 3, 9, 0, 9, 3, 9, 0, 6, 3, 1, 5,
      0, 3, 5, 6, 5, 9, 5, 1, 5, 5, 7, 0, 2, 2, 6, 3, 9, 2, 2, 9, 0, 8, 5,
      8, 3, 9, 2, 4, 4, 9, 1, 0, 5, 1, 8, 4, 4, 3, 5, 9, 3, 1, 8, 0, 2, 8,
      4, 9, 9, 3, 6, 5, 3, 6, 1, 5, 2, 5, 0, 0, 3, 1, 9, 3, 7, 0, 4, 5, 7,
      6, 7, 8, 2, 4, 9, 2, 1, 9, 3, 6, 5, 6, 2, 3, 6, 6, 9, 8, 6, 3, 6, 5,
      8, 4, 8, 0, 7, 5, 7, 0, 0, 1, 5, 8, 5, 7, 6, 9, 2, 6, 9, 9, 0, 3, 7,
      0, 6, 3, 1, 1, 9, 2, 8, 2, 7, 9, 5, 5, 8, 5, 5, 1, 3, 3, 2, 9, 2, 7,
      8, 3, 4, 3, 3, 8, 4, 0, 9, 3, 5, 1, 9, 7, 8, 0, 1, 5, 5, 3, 1, 2, 4,
      6, 5, 9, 7, 2, 6, 3, 5, 7, 9, 5, 7, 4, 6, 2, 2, 7, 6, 6, 4, 6, 5, 2,
      7, 2, 8, 2, 7, 2, 2, 0, 0, 5, 6, 3, 7, 4, 0, 0, 6, 4, 8, 5, 4, 9, 9,
      9, 7, 7, 0, 9, 6, 5, 9, 9, 4, 7, 0, 4, 5, 4, 0, 2, 0, 8, 2, 8, 1, 6,
      6, 2, 2, 6, 2, 3, 7, 8, 5, 7, 3, 9, 3, 4, 5, 0, 7, 3, 6, 3, 3, 9, 0,
      0, 7, 9, 6, 7, 7, 6, 1, 9, 3, 0, 5, 7, 7, 5, 0, 6, 7, 4, 0, 1, 7, 6,
      3, 2, 4, 6, 7, 3, 6, 0, 0, 9, 6, 8, 9, 5, 1, 3, 4, 0, 5, 3, 5, 5, 3,
      7, 4, 5, 8, 5, 1, 6, 6, 6, 1, 1, 3, 4, 2, 2, 3, 7, 6, 6, 6, 7, 8, 6,
      0, 4, 1, 6, 2, 1, 5, 9, 6, 8, 0, 4, 6, 1, 9, 1, 4, 4, 6, 7, 2, 9, 1,
      8, 4, 0, 3, 0, 0, 5, 3, 0, 0, 5, 7, 5, 3, 0, 8, 4, 9, 0, 4, 8, 7, 6,
      5, 3, 9, 1, 7, 1, 1, 3, 8, 6, 5, 9, 1, 6, 4, 6, 2, 3, 9, 5, 2, 4, 9,
      1, 2, 6, 2, 3, 6, 5, 3, 8, 8, 1, 8, 7, 9, 6, 3, 6, 2, 3, 9, 3, 7, 3,
      2, 8, 0, 4, 2, 3, 8, 9, 1, 0, 1, 8, 6, 7, 2, 3, 4, 8, 4, 9, 7, 6, 6,
      8, 2, 3, 5, 0, 8, 9, 8, 6, 3, 3, 8, 8, 5, 8, 7, 9, 2, 5, 6, 2, 8, 3,
      0, 2, 7, 5, 5, 9, 9, 5, 6, 5, 7, 5, 2, 4, 4, 5, 5, 5, 0, 7, 2, 5, 5,
      1, 8, 9, 3, 1, 3, 6, 9, 0, 8, 3, 6, 2, 5, 4, 7, 7, 9, 1, 8, 6, 9, 4,
      8, 6, 6, 7, 9, 9, 4, 9, 6, 8, 3, 2, 4, 0, 4, 9, 7, 0, 5, 8, 2, 1, 0,
      2, 8, 5, 1, 3, 1, 8, 5, 4, 5, 1, 3, 9, 6, 2, 1, 3, 8, 3, 7, 7, 2, 2,
      8, 2, 6, 1, 4, 5, 4, 3, 7, 6, 9, 3, 4, 1, 2, 5, 3, 2, 0, 9, 8, 5, 9,
      1, 3, 2, 7, 6, 6, 7, 2, 3, 6, 3, 2, 8, 1, 2, 5>>
OrdenCero == -324

\* 2^-1022, the smallest normal double.
UmbralNormal ==
    <<2, 2, 2, 5, 0, 7, 3, 8, 5, 8, 5, 0, 7, 2, 0, 1, 3, 8, 3, 0, 9, 0, 2,
      3, 2, 7, 1, 7, 3, 3, 2, 4, 0, 4, 0, 6, 4, 2, 1, 9, 2, 1, 5, 9, 8, 0,
      4, 6, 2, 3, 3, 1, 8, 3, 0, 5, 5, 3, 3, 2, 7, 4, 1, 6, 8, 8, 7, 2, 0,
      4, 4, 3, 4, 8, 1, 3, 9, 1, 8, 1, 9, 5, 8, 5, 4, 2, 8, 3, 1, 5, 9, 0,
      1, 2, 5, 1, 1, 0, 2, 0, 5, 6, 4, 0, 6, 7, 3, 3, 9, 7, 3, 1, 0, 3, 5,
      8, 1, 1, 0, 0, 5, 1, 5, 2, 4, 3, 4, 1, 6, 1, 5, 5, 3, 4, 6, 0, 1, 0,
      8, 8, 5, 6, 0, 1, 2, 3, 8, 5, 3, 7, 7, 7, 1, 8, 8, 2, 1, 1, 3, 0, 7,
      7, 7, 9, 9, 3, 5, 3, 2, 0, 0, 2, 3, 3, 0, 4, 7, 9, 6, 1, 0, 1, 4, 7,
      4, 4, 2, 5, 8, 3, 6, 3, 6, 0, 7, 1, 9, 2, 1, 5, 6, 5, 0, 4, 6, 9, 4,
      2, 5, 0, 3, 7, 3, 4, 2, 0, 8, 3, 7, 5, 2, 5, 0, 8, 0, 6, 6, 5, 0, 6,
      1, 6, 6, 5, 8, 1, 5, 8, 9, 4, 8, 7, 2, 0, 4, 9, 1, 1, 7, 9, 9, 6, 8,
      5, 9, 1, 6, 3, 9, 6, 4, 8, 5, 0, 0, 6, 3, 5, 9, 0, 8, 7, 7, 0, 1, 1,
      8, 3, 0, 4, 8, 7, 4, 7, 9, 9, 7, 8, 0, 8, 8, 7, 7, 5, 3, 7, 4, 9, 9,
      4, 9, 4, 5, 1, 5, 8, 0, 4, 5, 1, 6, 0, 5, 0, 5, 0, 9, 1, 5, 3, 9, 9,
      8, 5, 6, 5, 8, 2, 4, 7, 0, 8, 1, 8, 6, 4, 5, 1, 1, 3, 5, 3, 7, 9, 3,
      5, 8, 0, 4, 9, 9, 2, 1, 1, 5, 9, 8, 1, 0, 8, 5, 7, 6, 6, 0, 5, 1, 9,
      9, 2, 4, 3, 3, 3, 5, 2, 1, 1, 4, 3, 5, 2, 3, 9, 0, 1, 4, 8, 7, 9, 5,
      6, 9, 9, 6, 0, 9, 5, 9, 1, 2, 8, 8, 8, 9, 1, 6, 0, 2, 9, 9, 2, 6, 4,
      1, 5, 1, 1, 0, 6, 3, 4, 6, 6, 3, 1, 3, 3, 9, 3, 6, 6, 3, 4, 7, 7, 5,
      8, 6, 5, 1, 3, 0, 2, 9, 3, 7, 1, 7, 6, 2, 0, 4, 7, 3, 2, 5, 6, 3, 1,
      7, 8, 1, 4, 8, 5, 6, 6, 4, 3, 5, 0, 8, 7, 2, 1, 2, 2, 8, 2, 8, 6, 3,
      7, 6, 4, 2, 0, 4, 4, 8, 4, 6, 8, 1, 1, 4, 0, 7, 6, 1, 3, 9, 1, 1, 4,
      7, 7, 0, 6, 2, 8, 0, 1, 6, 8, 9, 8, 5, 3, 2, 4, 4, 1, 1, 0, 0, 2, 4,
      1, 6, 1, 4, 4, 7, 4, 2, 1, 6, 1, 8, 5, 6, 7, 1, 6, 6, 1, 5, 0, 5, 4,
      0, 1, 5, 4, 2, 8, 5, 0, 8, 4, 7, 1, 6, 7, 5, 2, 9, 0, 1, 9, 0, 3, 1,
      6, 1, 3, 2, 2, 7, 7, 8, 8, 9, 6, 7, 2, 9, 7, 0, 7, 3, 7, 3, 1, 2, 3,
      3, 3, 4, 0, 8, 6, 9, 8, 8, 9, 8, 3, 1, 7, 5, 0, 6, 7, 8, 3, 8, 8, 4,
      6, 9, 2, 6, 0, 9, 2, 7, 7, 3, 9, 7, 7, 9, 7, 2, 8, 5, 8, 6, 5, 9, 6,
      5, 4, 9, 4, 1, 0, 9, 1, 3, 6, 9, 0, 9, 5, 4, 0, 6, 1, 3, 6, 4, 6, 7,
      5, 6, 8, 7, 0, 2, 3, 9, 8, 6, 7, 8, 3, 1, 5, 2, 9, 0, 6, 8, 0, 9, 8,
      4, 6, 1, 7, 2, 1, 0, 9, 2, 4, 6, 2, 5, 3, 9, 6, 7, 2, 8, 5, 1, 5, 6,
      2, 5>>
OrdenNormal == -308

\* signo * 0.mant * 10^(orden + 1) against 0.umbral * 10^(o + 1): -1, 0, 1
CmpUmbral(mant, orden, umbral, o) ==
    IF orden # o THEN (IF orden < o THEN -1 ELSE 1) ELSE CmpCifras(mant, umbral)

MaxExacto == 15     \* DBL_DIG

\* The double nearest to sg * cifras * 10^e.
Redondear(sg, cifras, e) ==
    LET n == SinCerosIniciales(cifras)
        mant == SinCerosFinales(n)
        exp == e + (Len(n) - Len(mant))
        orden == Len(mant) + exp - 1
    IN  IF mant = <<>> THEN Cero(sg)
        ELSE IF CmpUmbral(mant, orden, UmbralInf, OrdenInf) >= 0 THEN Inf(sg)
        ELSE IF CmpUmbral(mant, orden, UmbralCero, OrdenCero) <= 0 THEN Cero(sg)
        ELSE Real("finito", sg, mant, exp,
                  /\ Len(mant) <= MaxExacto
                  /\ CmpUmbral(mant, orden, UmbralNormal, OrdenNormal) >= 0)

\* The float of a price given in hundredths.
DeCentesimos(n) ==
    Redondear(IF n < 0 THEN -1 ELSE 1, CifrasDe(IF n < 0 THEN -n ELSE n), -2)

Minuscula(c) ==
    CASE c = "I" -> "i" [] c = "N" -> "n" [] c = "F" -> "f" [] c = "A" -> "a"
      [] c = "T" -> "t" [] c = "Y" -> "y" [] c = "E" -> "e" [] OTHER -> c

Minusculas(s) == [i \in 1..Len(s) |-> Minuscula(s[i])]

PosDe(s, ch) ==
    IF \E i \in 1..Len(s) : s[i] = ch
    THEN CHOOSE i \in 1..Len(s) : s[i] = ch /\ \A j \in 1..(i - 1) : s[j] # ch
    ELSE 0

PosPunto(s) == PosDe(s, ".")

\* float(text): surrounding blanks and a sign; then inf, infinity or nan in
\* any case, or digits with an optional point and an optional exponent,
\* single underscores between digits; anything else raises ValueError.
ParseFloat(t) ==
    LET s == StripNum(t)
        u == Minusculas(SinSigno(s))
        d == SinGuiones(u)
        pe == PosDe(d, "e")
        cuerpo == IF pe = 0 THEN d ELSE SubSeq(d, 1, pe - 1)
        expo == IF pe = 0 THEN <<>> ELSE SubSeq(d, pe + 1, Len(d))
        p == PosPunto(cuerpo)
        ent == IF p = 0 THEN cuerpo ELSE SubSeq(cuerpo, 1, p - 1)
        dec == IF p = 0 THEN <<>> ELSE SubSeq(cuerpo, p + 1, Len(cuerpo))
    IN  IF u \in {<<"i", "n", "f">>, <<"i", "n", "f", "i", "n", "i", "t", "y">>}
        THEN [ok |-> TRUE, val |-> Inf(Signo(s))]
        ELSE IF u = <<"n", "a", "n">> THEN [ok |-> TRUE, val |-> NaN]
        ELSE IF /\ GuionesValidos(u)
                /\ (ent # <<>> \/ dec # <<>>)
                /\ (ent = <<>> \/ SoloDigitos(ent))
                /\ (dec = <<>> \/ SoloDigitos(dec))
                /\ (pe = 0 \/ SoloDigitos(SinSigno(expo)))
        THEN [ok |-> TRUE,
              val |-> Redondear(Signo(s), Valores(ent \o dec),
                                Entero(Signo(expo), Valores(SinSigno(expo))) - Len(dec))]
        ELSE [ok |-> FALSE, val |-> Cero(1)]

\* x <= 0 of a float: a NaN compares false.
NoPositivo(x) ==
    CASE x.clase = "nan" -> FALSE
      [] x.clase = "finito" -> x.signo < 0 \/ x.mant = <<>>
      [] OTHER -> x.signo < 0

Max0(a, b) == IF a >= b THEN a ELSE b
Min0(a, b) == IF a <= b THEN a ELSE b
MaxOf(S) == CHOOSE x \in S : \A y \in S : y <= x

\* ------------------------------------------------------------- CSV records
\* One raw CSV row; nan is the set of columns whose cell is empty.
Fila(id, cli, ciu, pro, fec, dias, est, cant, pre, si, sf, nan) ==
    [id_venta |-> id, cliente_id |-> cli, ciudad |-> ciu, producto |-> pro,
     fecha |-> fec, tiempo_entrega_dias |-> dias, estado_entrega |-> est,
     cantidad |-> cant, precio_unitario |-> pre,
     stock_inicial_producto |-> si, stock_final_producto |-> sf, nan |-> nan]

K1 == <<"K", "1">>
K2 == <<"K", "2">>

V1 == Fila(1, K1, "Bogota", "Frutas", 1, 2, "Entregado", 5, 200, 20, 15, {})
V2 == Fila(2, K2, "Cali", "Lacteos", 2, 1, "Retrasado", 4, 300, 12, 8, {})
\* a status outside the enum of the ventas table
V3 == Fila(3, K1, "Bogota", "Frutas", 2, 3, "Pendiente", 2, 200, 10, 8, {})
\* an incomplete row
V4 == Fila(4, K2, "Cali", "Lacteos", 2, 1, "Entregado", 0, 300, 8, 8, {"cantidad"})

\* the date of V3 for the same pair, another stock
V5 == Fila(5, K2, "Bogota", "Frutas", 2, 1, "Cancelado", 1, 200, 9, 7, {})
\* the id of V1 on another order
V6 == Fila(1, K2, "Cali", "Lacteos", 1, 1, "Entregado", 3, 300, 30, 27, {})
\* no date
V7 == Fila(7, K1, "Cali", "Frutas", 0, 2, "Entregado", 2, 200, 6, 4, {"fecha"})
\* no status: a cell that none of the derived columns reads
V8 == Fila(8, K1, "Cali", "Frutas", 2, 2, "", 2, 200, 6, 4, {"estado_entrega"})

\* an order that left its pair one unit short: a stock-after below 0
V9 == Fila(9, K1, "Bogota", "Frutas", 1, 2, "Entregado", 5, 200, 4, -1, {})

\* The rows the bulk loads of the runs draw from.
CsvRows == {V1, V2, V3}

RECURSIVE SeqsUpTo(_, _)
SeqsUpTo(S, n) ==
    IF n = 0 THEN {<<>>}
    ELSE LET prev == SeqsUpTo(S, n - 1)
         IN  prev \cup {Append(q, x) : q \in {p \in prev : Len(p) = n - 1}, x \in S}

SinRepetir(q) == \A i, j \in 1..Len(q) : q[i] = q[j] => i = j

\* The CSV files of the runs: up to MaxCsvLen rows, no row twice.
CsvFiles == {q \in SeqsUpTo(CsvRows, MaxCsvLen) : q # <<>> /\ SinRepetir(q)}

\* ---------------------------------------------------------------- analysis
\* normalize_dataframe: fecha_entrega and ingreso_total are derived, then the
\* rows with an empty cell are dropped.
NormalizeRow(r) ==
    [id_venta |-> r.id_venta, cliente_id |-> r.cliente_id, ciudad |-> r.ciudad,
     producto |-> r.producto, fecha |-> r.fecha,
     tiempo_entrega_dias |-> r.tiempo_entrega_dias,
     estado_entrega |-> r.estado_entrega, cantidad |-> r.cantidad,
     precio_unitario |-> r.precio_unitario,
     stock_inicial_producto |-> r.stock_inicial_producto,
     stock_final_producto |-> r.stock_final_producto,
     fecha_entrega |-> r.fecha + r.tiempo_entrega_dias,
     ingreso_total |-> r.cantidad * r.precio_unitario]

NormalizeDataframe(csv) ==
    LET kept == SelectSeq(csv, LAMBDA r : r.nan = {})
    IN  [i \in 1..Len(kept) |-> NormalizeRow(kept[i])]

\* A DataFrame as an object the caller and the callee share: its columns, the
\* dtype of fecha, its rows.
ColumnasCsv ==
    {"id_venta", "cliente_id", "ciudad", "producto", "fecha",
     "tiempo_entrega_dias", "estado_entrega", "cantidad", "precio_unitario",
     "stock_inicial_producto", "stock_final_producto"}

\* pd.read_csv: the dates are text.
\* The dtype read_csv gives a column of text: object up to pandas 2, str
\* from pandas 3 on; the repository pins no version.
DtypesTexto == {"object", "str"}

\* pd.read_csv: a column whose cells are all empty is read as float64 (all
\* NaN), the fecha column of any other file as text.
LoadCsvIntoDf(csv, texto) ==
    [columnas |-> ColumnasCsv,
     fecha_dtype |-> IF csv # <<>> /\ \A i \in 1..Len(csv) : "fecha" \in csv[i].nan
                     THEN "float64" ELSE texto,
     filas |-> csv]

NoFrame == [columnas |-> {}, fecha_dtype |-> "object", filas |-> <<>>]

\* A cell computed from an empty cell is empty (NaT, NaN).
NanDerivadas(nan) ==
    (IF nan \cap {"fecha", "tiempo_entrega_dias"} # {} THEN {"fecha_entrega"} ELSE {})
    \cup (IF nan \cap {"cantidad", "precio_unitario"} # {} THEN {"ingreso_total"} ELSE {})

\* One row after the three assignments df[...] = ...
AsignarRow(r) ==
    [id_venta |-> r.id_venta, cliente_id |-> r.cliente_id, ciudad |-> r.ciudad,
     producto |-> r.producto, fecha |-> r.fecha,
     tiempo_entrega_dias |-> r.tiempo_entrega_dias,
     estado_entrega |-> r.estado_entrega, cantidad |-> r.cantidad,
     precio_unitario |-> r.precio_unitario,
     stock_inicial_producto |-> r.stock_inicial_producto,
     stock_final_producto |-> r.stock_final_producto,
     fecha_entrega |-> IF "fecha_entrega" \in NanDerivadas(r.nan) THEN 0
                       ELSE r.fecha + r.tiempo_entrega_dias,
     ingreso_total |-> IF "ingreso_total" \in NanDerivadas(r.nan) THEN 0
                       ELSE r.cantidad * r.precio_unitario,
     nan |-> r.nan \cup NanDerivadas(r.nan)]

\* df["fecha"] = pd.to_datetime(...); df["fecha_entrega"] = ...;
\* df["ingreso_total"] = ...: the frame passed in, after the assignments.
Asignar(f) ==
    [columnas |-> f.columnas \cup {"fecha_entrega", "ingreso_total"},
     fecha_dtype |-> "datetime64",
     filas |-> [i \in 1..Len(f.filas) |-> AsignarRow(f.filas[i])]]

\* df.dropna(): a new frame of the rows without an empty cell.
Dropna(f) == [f EXCEPT !.filas = SelectSeq(f.filas, LAMBDA r : r.nan = {})]

\* ---------------------------------------------------------------- database
\* ciudades / productos: name -> id, 0 when the name has no row.
\* inventario: a function whose domain is the set of <<id_producto, id_ciudad>>
\* that have a row.
\* seq_ciudades / seq_productos: the AUTOINCREMENT counters of the two tables
\* (sqlite_sequence).
EmptyDb ==
    [ciudades |-> [c \in Cities |-> 0],
     productos |-> [p \in Products |-> 0],
     seq_ciudades |-> 0,
     seq_productos |-> 0,
     clientes |-> {},
     ventas |-> {},
     inventario |-> <<>>,
     id_inventario |-> <<>>,
     seq_inventario |-> 0]

\* The null name (None, NaN) a column can hold.
Nulo == "<null>"

\* A reference table: ids is name -> id (0: no row), seq its AUTOINCREMENT
\* counter.
Tabla(ids, seq) == [ids |-> ids, seq |-> seq]

\* The id AUTOINCREMENT gives the next INSERT: above every id ever handed out.
NextId(t) == Max0(t.seq, MaxOf({t.ids[n] : n \in DOMAIN t.ids} \cup {0})) + 1

\* INSERT OR REPLACE: a name that has a row gets a new one
InsertOrIgnore_Replace(t, n) ==
    IF n = Nulo THEN [t EXCEPT !.seq = NextId(t)]
    ELSE [ids |-> [t.ids EXCEPT ![n] = NextId(t)], seq |-> NextId(t)]

\* INSERT OR IGNORE INTO <table> (nombre) VALUES (n).  The id is drawn from
\* the counter before the constraints are checked: an insert ignored for
\* UNIQUE or NOT NULL still uses it up.
InsertOrIgnore(t, n) ==
    IF n = Nulo \/ t.ids[n] # 0
    THEN [t EXCEPT !.seq = NextId(t)]
    ELSE [ids |-> [t.ids EXCEPT ![n] = NextId(t)], seq |-> NextId(t)]

\* SELECT id FROM <table> WHERE nombre = n; fetchone(): 0 stands for None
\* (nothing equals NULL).
SelectId(t, n) == IF n = Nulo THEN 0 ELSE t.ids[n]

\* Series.unique(): the values in order of first appearance.
RECURSIVE Unique(_)
Unique(q) ==
    IF q = <<>> THEN <<>>
    ELSE LET r == Unique(SubSeq(q, 1, Len(q) - 1))
             x == q[Len(q)]
         IN  IF \E i \in 1..Len(r) : r[i] = x THEN r ELSE Append(r, x)

\* The loop of migrate_cities / migrate_products over the unique names: the
\* table after it, the mapping built, and "TypeError" when fetchone()[0] is
\* taken of None (the loop stops there, nothing is committed).
RECURSIVE Resolver(_, _, _)
Resolver(t, mapa, nombres) ==
    IF nombres = <<>> THEN [tabla |-> t, mapa |-> mapa, resultado |-> "ok"]
    ELSE LET n == Head(nombres)
             t1 == InsertOrIgnore(t, n)
             id == SelectId(t1, n)
         IN  IF id = 0
             THEN [tabla |-> t1, mapa |-> mapa, resultado |-> "TypeError"]
             ELSE Resolver(t1, [x \in (DOMAIN mapa) \cup {n} |->
                                   IF x = n THEN id ELSE mapa[x]],
                           Tail(nombres))

\* The table after the loop.
UpsertNames(t, nombres) == Resolver(t, <<>>, Unique(nombres)).tabla

Columna(df, col) == [i \in 1..Len(df) |-> df[i][col]]

MigrateCities(db, df) ==
    LET t == UpsertNames(Tabla(db.ciudades, db.seq_ciudades), Columna(df, "ciudad"))
    IN  [db EXCEPT !.ciudades = t.ids, !.seq_ciudades = t.seq]

MigrateProducts(db, df) ==
    LET t == UpsertNames(Tabla(db.productos, db.seq_productos), Columna(df, "producto"))
    IN  [db EXCEPT !.productos = t.ids, !.seq_productos = t.seq]

MigrateClients(db, df) ==
    [db EXCEPT !.clientes = db.clientes \cup {df[i].cliente_id : i \in 1..Len(df)}]

VentaDeFila(db, r) ==
    [id_venta |-> r.id_venta, id_cliente |-> r.cliente_id,
     id_ciudad |-> db.ciudades[r.ciudad], id_producto |-> db.productos[r.producto],
     fecha |-> r.fecha, fecha_entrega |-> r.fecha_entrega,
     tiempo_entrega_dias |-> r.tiempo_entrega_dias,
     estado_entrega |-> r.estado_entrega, cantidad |-> r.cantidad,
     precio_unitario |-> DeCentesimos(r.precio_unitario),
     stock_inicial |-> r.stock_inicial_producto,
     stock_final |-> r.stock_final_producto]

Ids(ventas) == {v.id_venta : v \in ventas}

\* INSERT OR REPLACE INTO ventas: the row of a taken id is overwritten
RECURSIVE InsertVentas_Replace(_, _, _)
InsertVentas_Replace(db, ventas, df) ==
    IF df = <<>> THEN ventas
    ELSE LET r == Head(df)
         IN  InsertVentas_Replace(
                 db,
                 IF r.estado_entrega \notin Estados THEN ventas
                 ELSE {v \in ventas : v.id_venta # r.id_venta} \cup {VentaDeFila(db, r)},
                 Tail(df))

\* INSERT OR IGNORE INTO ventas: a row is skipped when its id is taken or when
\* it breaks the CHECK on estado_entrega.
RECURSIVE InsertVentas(_, _, _)
InsertVentas(db, ventas, df) ==
    IF df = <<>> THEN ventas
    ELSE LET r == Head(df)
             skip == r.id_venta \in Ids(ventas) \/ r.estado_entrega \notin Estados
         IN  InsertVentas(db, IF skip THEN ventas ELSE ventas \cup {VentaDeFila(db, r)},
                          Tail(df))

MigrateSales(db, df) == [db EXCEPT !.ventas = InsertVentas(db, db.ventas, df)]

ParesDe(df) == {<<df[i].ciudad, df[i].producto>> : i \in 1..Len(df)}

\* ascending=True: the rows of the group's earliest date
Ultimas_MasAntigua(df, par) ==
    LET g == {i \in 1..Len(df) : <<df[i].ciudad, df[i].producto>> = par}
    IN  {i \in g : \A j \in g : df[j].fecha >= df[i].fecha}

\* The rows sort_values("fecha", ascending=False) may put first in a group:
\* those with the group's latest date (the order among equal dates is not
\* fixed by the sort).
Ultimas(df, par) ==
    LET g == {i \in 1..Len(df) : <<df[i].ciudad, df[i].producto>> = par}
    IN  {i \in g : \A j \in g : df[j].fecha <= df[i].fecha}

\* The per-pair choices initialize_inventory can make.
UltimoStock(df) ==
    {f \in [ParesDe(df) -> 1..Len(df)] : \A par \in ParesDe(df) : f[par] \in Ultimas(df, par)}

\* The names in the order of their texts, which is the order groupby puts
\* its groups in.
NombresOrden == <<"Bogota", "Cali", "Frutas", "Lacteos">>

PosNombre(n) == CHOOSE i \in 1..Len(NombresOrden) : NombresOrden[i] = n

ParAntes(p, q) ==
    \/ PosNombre(p[1]) < PosNombre(q[1])
    \/ p[1] = q[1] /\ PosNombre(p[2]) < PosNombre(q[2])

\* The (ciudad, producto) groups as ultimo_stock.iterrows() goes through them.
RECURSIVE Ordenados(_)
Ordenados(S) ==
    IF S = {} THEN <<>>
    ELSE LET m == CHOOSE p \in S : \A q \in S \ {p} : ParAntes(p, q)
         IN  <<m>> \o Ordenados(S \ {m})

\* The id AUTOINCREMENT gives the next row of inventario.
NextIdInventario(db) ==
    Max0(db.seq_inventario,
         MaxOf({db.id_inventario[k] : k \in DOMAIN db.id_inventario} \cup {0})) + 1

\* INSERT OR REPLACE INTO inventario (id_producto, id_ciudad, stock_actual),
\* row after row: the row of a pair that has one is deleted for UNIQUE
\* (id_producto, id_ciudad) and the new row gets a new id_inventario.
RECURSIVE ReplaceInventario(_, _)
ReplaceInventario(db, filas) ==
    IF filas = <<>> THEN db
    ELSE LET k == Head(filas)[1]
             stock == Head(filas)[2]
             id == NextIdInventario(db)
             claves == (DOMAIN db.inventario) \cup {k}
         IN  ReplaceInventario(
                 [db EXCEPT
                     !.inventario = [x \in claves |-> IF x = k THEN stock ELSE db.inventario[x]],
                     !.id_inventario = [x \in claves |-> IF x = k THEN id ELSE db.id_inventario[x]],
                     !.seq_inventario = id],
                 Tail(filas))

ClaveDePar(db, par) == <<db.productos[par[2]], db.ciudades[par[1]]>>

\* the stock added to the row's instead of replacing it
InitializeInventory_Suma(db, df, elegido) ==
    LET ps == Ordenados(ParesDe(df))
    IN  ReplaceInventario(db,
            [i \in 1..Len(ps) |->
                <<ClaveDePar(db, ps[i]),
                  df[elegido[ps[i]]].stock_final_producto
                      + (IF ClaveDePar(db, ps[i]) \in DOMAIN db.inventario
                         THEN db.inventario[ClaveDePar(db, ps[i])] ELSE 0)>>])

\* initialize_inventory: one INSERT OR REPLACE for every pair of the CSV, with
\* the stock_final_producto of the row chosen for the pair.
InitializeInventory(db, df, elegido) ==
    LET ps == Ordenados(ParesDe(df))
    IN  ReplaceInventario(db,
            [i \in 1..Len(ps) |->
                <<ClaveDePar(db, ps[i]), df[elegido[ps[i]]].stock_final_producto>>])

\* DatabaseMigrator.migrate on one CSV file.
Migrate(db, csv, elegido) ==
    LET df == NormalizeDataframe(csv)
        d1 == MigrateCities(db, df)
        d2 == MigrateProducts(d1, df)
        d3 == MigrateClients(d2, df)
        d4 == MigrateSales(d3, df)
    IN  InitializeInventory(d4, df, elegido)

\* ------------------------------------------------------------------- state
VARIABLES
    db,     \* the committed content of freshmarket.db
    txn,    \* per connection: the open transaction's pending writes
    lock,   \* the connection holding SQLite's write lock, or "libre"
    pc,     \* per form: where registrar_pedido stands
    cur,    \* per form: the widgets' texts and the locals of registrar_pedido
    hist,   \* history: per pair the stock of the row the last bulk load wrote
            \* and the quantities of the orders committed on that row
    vistas, \* per form: the rows its availability and alert tables show
    ref,    \* a reference table (ciudades or productos) as rows, with the
            \* outcome of the last resolution run on it
    frames, \* the frame a caller of normalize_dataframe holds (df) and the
            \* frame the call returned (clean_df)
    mig,    \* the migrator process: the CSV it loaded, the step it is at, and
            \* whether a step of this run has committed a change
    dia     \* the day the clock shows

vars == <<db, txn, lock, pc, cur, hist, vistas, ref, frames, mig, dia>>

\* No migrate running.
NoMig == [paso |-> 0, csv |-> <<>>, escrito |-> FALSE]

NoFrames == [df |-> NoFrame, clean_df |-> NoFrame, paso |-> "ninguno"]

NoTxn == [abierta |-> FALSE, ventas |-> {}, inventario |-> <<>>]

\* What connection a reads: the committed rows and its own pending writes.
Vista(a) ==
    [db EXCEPT
        !.ventas = db.ventas \cup txn[a].ventas,
        !.inventario = [k \in DOMAIN db.inventario |->
                           IF k \in DOMAIN txn[a].inventario
                           THEN txn[a].inventario[k] ELSE db.inventario[k]]]

\* ------------------------------------------------------------ the form
Form(cli, ciu, pro, pre, cant, dias) ==
    [cliente |-> cli, ciudad |-> ciu, producto |-> pro, precio |-> pre,
     cantidad |-> cant, dias |-> dias]

NoForm == Form(<<>>, "", "", <<>>, <<>>, <<>>)

NoLocals ==
    [form |-> NoForm, cliente_id |-> <<>>, cantidad |-> 0, dias_entrega |-> 0,
     precio_unitario |-> Cero(1), stock_actual |-> 0, id_inventario |-> 0,
     id_producto |-> 0, id_ciudad |-> 0,
     respuesta |-> FALSE, faltante |-> [signo |-> 1, cifras |-> <<>>], nuevo_id_venta |-> 0, fecha_actual |-> 0,
     fecha_entrega |-> 0, nuevo_stock |-> 0]

\* The texts of the entry fields and spinboxes of the runs.
ClienteTexts == {<<"\t">>, <<" ", "K", "9", "\n">>}
\* no price; 100.0; 1.00000001e-324, which rounds to 0.0; -1.0; a NaN
PrecioTexts ==
    {<<" ", "$">>, <<"$", "1", "e", "2">>,
     <<"1", ".", "0", "0", "0", "0", "0", "0", "0", "1", "e", "-", "3", "2", "4">>,
     <<"-", "1">>, <<"n", "a", "n">>}
\* 0; U+001F before a digit, which int() refuses; 10 in Devanagari digits
\* after a tab; 2^63
CantidadTexts ==
    {<<"0">>, <<"U+001F", "7">>, <<"\t", "U+0967", "_", "U+0966">>,
     <<"9", "2", "2", "3", "3", "7", "2", "0", "3", "6",
       "8", "5", "4", "7", "7", "5", "8", "0", "8">>}
DiasTexts == {<<"0">>, <<"2">>, <<"-", "9">>}

\* The readonly comboboxes offer the names load_initial_data read when the
\* application started; "" is the empty selection.
CiudadChoices(a) == {""} \cup vistas[a].ciudades
ProductoChoices(a) == {""} \cup vistas[a].productos

Forms(a) ==
    {Form(cli, ciu, pro, pre, cant, dias) :
        cli \in ClienteTexts, ciu \in CiudadChoices(a), pro \in ProductoChoices(a),
        pre \in PrecioTexts, cant \in CantidadTexts, dias \in DiasTexts}

\* The forms of the sequential runs: every offered (ciudad, producto) with two
\* quantities, and two forms rejected on their fields.
FormsBasicas(a) ==
    {Form(<<" ", "K", "9">>, ciu, pro, <<"$", "2">>, cant, <<"2">>) :
        ciu \in CiudadChoices(a) \ {""}, pro \in ProductoChoices(a) \ {""},
        cant \in {<<"5">>, <<"1", "2">>}}
    \cup
    {Form(<<" ", "K", "9">>, "", "", <<"$", "2">>, <<"5">>, <<"2">>),
     Form(<<" ", "K", "9">>, "", "", <<"x">>, <<"0">>, <<"2">>)}

\* precio_text = entry.get().strip().replace("$", "").replace(",", "")
PrecioText(f) == Quitar(Quitar(Strip(f.precio), "$"), ",")

ErrDlgs ==
    {"ErrCampos", "ErrCantidad", "ErrPrecio", "ErrValor", "ErrNoDisponible", "ErrBD",
     "ErrInesperado"}
CommitPcs == {"MaxId", "Insert", "Update", "Commit"}

\* cantidad < 0: zero let through
CantidadInvalida_Cero(cantidad) == cantidad < 0

\* cantidad <= 0
CantidadInvalida(cantidad) == cantidad <= 0

\* precio_unitario <= 0
PrecioInvalido(precio) == NoPositivo(precio)

\* Lines 493-519: the field checks, in the order the code makes them.
Validar(f) ==
    LET cantidad == ParseInt(f.cantidad)
        dias == ParseInt(f.dias)
        precio == ParseFloat(PrecioText(f))
    IN  IF Strip(f.cliente) = <<>> \/ f.ciudad = "" \/ f.producto = ""
           \/ PrecioText(f) = <<>>
        THEN "ErrCampos"
        ELSE IF ~cantidad.ok \/ ~dias.ok \/ ~precio.ok THEN "ErrValor"
        ELSE IF CantidadInvalida(cantidad.val) THEN "ErrCantidad"
        ELSE IF PrecioInvalido(precio.val) THEN "ErrPrecio"
        ELSE "ok"

\* The locals once the fields are parsed.
Leidos(f) ==
    [NoLocals EXCEPT
        !.form = f,
        !.cliente_id = Strip(f.cliente),
        !.cantidad = ParseInt(f.cantidad).val,
        !.dias_entrega = ParseInt(f.dias).val,
        !.precio_unitario = ParseFloat(PrecioText(f)).val]

\* the join on ciudades left out of the WHERE
BuscarStock_SinCiudad(v, ciudad, producto) ==
    {k \in DOMAIN v.inventario :
        /\ ciudad \in Cities /\ producto \in Products
        /\ v.productos[producto] = k[1]}

\* The inventory row of (ciudad, producto) through the two joins, as a set:
\* empty when there is none.
BuscarStock(v, ciudad, producto) ==
    {k \in DOMAIN v.inventario :
        /\ ciudad \in Cities /\ producto \in Products
        /\ v.productos[producto] = k[1] /\ v.ciudades[ciudad] = k[2]}

\* the prompt for every stock under the restocking threshold
StockInsuficiente_Umbral(stock_actual, cantidad) == stock_actual < StockMinimo

StockInsuficiente(stock_actual, cantidad) == stock_actual < cantidad

\* The digits of the quantity int() read from the text of the spinbox: the
\* quantity itself, which is positive once the field checks passed.
CifrasCantidad(t) == SinCerosIniciales(Valores(SinGuiones(SinSigno(StripNum(t)))))

\* str(n) of an int n, which the f-string of the prompt calls: it raises
\* ValueError past sys.get_int_max_str_digits() digits.
Mostrable(n) == Len(n.cifras) <= MaxStrDigits

\* {cantidad - stock_actual} of the shortage prompt: the int the f-string
\* shows, as its sign and its digits, exact whatever the size of the
\* quantity. cifras: the digits of cantidad; stock_actual: below 10^9 in
\* absolute value, as every snapshot quantity of the runs is.
Faltante(cifras, stock_actual) ==
    IF stock_actual < 0
    THEN [signo |-> 1, cifras |-> SumaCifras(cifras, -stock_actual)]
    ELSE IF Len(cifras) > 9 \/ Decimal(cifras) >= stock_actual
    THEN [signo |-> 1, cifras |-> RestaCifras(cifras, stock_actual)]
    ELSE [signo |-> -1, cifras |-> CifrasDe(stock_actual - Decimal(cifras))]

\* (max_id or 0) + 1
NuevoIdVenta(ventas) ==
    LET max_id == IF ventas = {} THEN 0 ELSE MaxOf(Ids(ventas))
    IN  (IF max_id = 0 THEN 0 ELSE max_id) + 1

\* stock_actual - cantidad, the floor at 0 forgotten
NuevoStock_SinTope(stock_actual, cantidad) == stock_actual - cantidad

\* max(0, stock_actual - cantidad)
NuevoStock(stock_actual, cantidad) == Max0(0, stock_actual - cantidad)

\* fecha_entrega = now + timedelta(days=dias_entrega)
FechaEntrega(fecha, dias) == fecha + dias

\* Day 1 is date.min (0001-01-01); the last day a date can hold and the most
\* days a timedelta can.
DiaMin == 1
DiaMax == 3652059
MaxDelta == 999999999

\* An int that sqlite3 binds as INTEGER: -2^63 to 2^63 - 1.
CabeEnSqlite(n) == n # Enorme /\ n # -Enorme

\* timedelta(days=dias) and the sum are within range; otherwise
\* OverflowError.
FechaValida(fecha, dias) ==
    /\ -MaxDelta <= dias /\ dias <= MaxDelta
    /\ DiaMin <= FechaEntrega(fecha, dias) /\ FechaEntrega(fecha, dias) <= DiaMax

\* datetime.now(), to the day: "%Y-%m-%d" keeps the day alone.
Now == dia

\* The last day of the runs.
DiaFin == Hoy + 1

\* The row of the INSERT INTO ventas.
NuevaVenta(l, fecha) ==
    [id_venta |-> l.nuevo_id_venta, id_cliente |-> l.cliente_id,
     id_ciudad |-> l.id_ciudad, id_producto |-> l.id_producto,
     fecha |-> fecha, fecha_entrega |-> l.fecha_entrega,
     tiempo_entrega_dias |-> l.dias_entrega, estado_entrega |-> "En transito",
     cantidad |-> l.cantidad, precio_unitario |-> l.precio_unitario,
     stock_inicial |-> l.stock_actual,
     stock_final |-> NuevoStock(l.stock_actual, l.cantidad)]

\* the except branch without its rollback
Rollback_Olvidado(t) == t

\* conn.rollback(): the pending writes are dropped.
Rollback(t) == NoTxn

\* conn.commit(): the pending writes become the committed content.
Aplicar(d, t) ==
    [d EXCEPT
        !.ventas = d.ventas \cup t.ventas,
        !.inventario = [k \in DOMAIN d.inventario |->
                           IF k \in DOMAIN t.inventario
                           THEN t.inventario[k] ELSE d.inventario[k]]]

\* nuevo_stock <= 10
NecesitaReposicion_Incluye10(nuevo_stock) == nuevo_stock <= StockMinimo

\* nuevo_stock < 10
NecesitaReposicion(nuevo_stock) == nuevo_stock < StockMinimo

\* ------------------------------------------------------------------- views
\* stock <= 20 for the medium tier
Estado_MedioHasta20(stock) ==
    IF stock < StockMinimo THEN "BAJO"
    ELSE IF stock <= StockMedio THEN "MEDIO"
    ELSE "OK"

\* stock <= 10 for the low tier
Estado_BajoIncluye10(stock) ==
    IF stock <= StockMinimo THEN "BAJO"
    ELSE IF stock < StockMedio THEN "MEDIO"
    ELSE "OK"

\* The tier of a row of the availability table: < 10, < 20, else.
Estado(stock) ==
    IF stock < StockMinimo THEN "BAJO"
    ELSE IF stock < StockMedio THEN "MEDIO"
    ELSE "OK"

\* FROM inventario i JOIN productos p JOIN ciudades c: the inventory rows
\* with the names their two ids resolve to.
Inventariadas(v) ==
    {t \in Cities \X Products \X DOMAIN v.inventario :
        v.ciudades[t[1]] = t[3][2] /\ v.productos[t[2]] = t[3][1]}

\* The rows actualizar_disponibilidad inserts in the table; the order of the
\* rows is left out.
FilasDisponibilidad(v, filtro) ==
    {[ciudad |-> t[1], producto |-> t[2], stock |-> v.inventario[t[3]],
      estado |-> Estado(v.inventario[t[3]])] :
        t \in {u \in Inventariadas(v) : filtro \in {"", "Todas"} \/ u[1] = filtro}}

\* The rows actualizar_alertas inserts in the table.
FilasAlertas(v) ==
    {[ciudad |-> t[1], producto |-> t[2], stock_actual |-> v.inventario[t[3]],
      stock_minimo |-> StockMinimo, faltante |-> StockMinimo - v.inventario[t[3]]] :
        t \in {u \in Inventariadas(v) : v.inventario[u[3]] < StockMinimo}}

\* SELECT nombre_ciudad FROM ciudades / nombre_producto FROM productos
Ciudades(d) == {c \in Cities : d.ciudades[c] # 0}
Productos(d) == {p \in Products : d.productos[p] # 0}

\* SELECT COUNT(*) FROM inventario WHERE stock_actual < 10: the rows counted
BajoMinimo(d) == {k \in DOMAIN d.inventario : d.inventario[k] < StockMinimo}

\* The tables of a form started on store d with no other process writing:
\* load_initial_data fills the comboboxes and the availability table with
\* the filter on "Todas"; the alert table is empty until its first refresh.
VistasInicio(d) ==
    [ciudades |-> Ciudades(d), productos |-> Productos(d),
     filtro |-> "Todas", disponibilidad |-> FilasDisponibilidad(d, "Todas"),
     alertas |-> {}]

\* No window, or the window as create_widgets builds it.
VistasCerrada ==
    [ciudades |-> {}, productos |-> {}, filtro |-> "", disponibilidad |-> {},
     alertas |-> {}]

\* The names a column handed to migrate_cities / migrate_products may hold:
\* two names, the empty string and the null name.
NombresRef == {"Bogota", "Cali", "", Nulo}

\* The reference table before its first row, no resolution run yet.
NoRef ==
    [tabla |-> Tabla([n \in NombresRef \ {Nulo} |-> 0], 0),
     entrada |-> <<>>, resultado |-> "ninguno", mapa |-> <<>>]

\* ----------------------------------------------------------------- history
ClaveDe(l) == <<l.id_producto, l.id_ciudad>>

NoHist == [n |-> 0, cargas |-> 0, base |-> <<>>, pedido |-> <<>>, surtido |-> <<>>]

\* After a bulk load: the rows it wrote start a new history.
HistCarga(h, antes, despues, escritas) ==
    [n |-> h.n,
     cargas |-> h.cargas,
     base |-> [k \in DOMAIN despues.inventario |->
                  IF k \in escritas THEN despues.inventario[k] ELSE h.base[k]],
     pedido |-> [k \in DOMAIN despues.inventario |->
                  IF k \in escritas THEN 0 ELSE h.pedido[k]],
     surtido |-> [k \in DOMAIN despues.inventario |->
                  IF k \in escritas THEN 0 ELSE h.surtido[k]]]

\* After a commit, on store d, of the order in locals l: its quantity, and
\* the lesser of its quantity and the stock it read, count for its pair.
HistPedido(h, l, d) ==
    [h EXCEPT !.n = @ + 1,
              !.pedido[ClaveDe(l)] = @ + l.cantidad,
              !.surtido[ClaveDe(l)] = @ + Min0(l.cantidad, l.stock_actual)]

\* ----------------------------------------------------------------- actions
\* python main.py ui: FreshMarketApp.__init__ connects, builds the window
\* and calls load_initial_data, whose first SELECT fills the city combobox
\* and the filter, set on "Todas".  falla: the SELECT raises sqlite3.Error.
Abrir(a, falla) ==
    /\ pc[a] = "Cerrada"
    /\ IF falla
       THEN /\ pc' = [pc EXCEPT ![a] = "ErrCarga"]
            /\ vistas' = [vistas EXCEPT ![a] = VistasCerrada]
       ELSE /\ pc' = [pc EXCEPT ![a] = "Productos"]
            /\ vistas' = [vistas EXCEPT ![a] =
                            [VistasCerrada EXCEPT !.ciudades = Ciudades(Vista(a)),
                                                  !.filtro = "Todas"]]
    /\ UNCHANGED <<db, txn, lock, cur, hist, ref, frames, mig, dia>>

\* load_initial_data: the SELECT of the products.
CargarProductos(a, falla) ==
    /\ pc[a] = "Productos"
    /\ IF falla
       THEN /\ pc' = [pc EXCEPT ![a] = "ErrCarga"]
            /\ UNCHANGED vistas
       ELSE /\ pc' = [pc EXCEPT ![a] = "Disponibilidad"]
            /\ vistas' = [vistas EXCEPT ![a].productos = Productos(Vista(a))]
    /\ UNCHANGED <<db, txn, lock, cur, hist, ref, frames, mig, dia>>

\* load_initial_data: actualizar_disponibilidad, which catches its own
\* sqlite3.Error.
CargarDisponibilidad(a, falla) ==
    /\ pc[a] = "Disponibilidad"
    /\ IF falla
       THEN /\ pc' = [pc EXCEPT ![a] = "ErrDispInicio"]
            /\ vistas' = [vistas EXCEPT ![a].disponibilidad = {}]
       ELSE /\ pc' = [pc EXCEPT ![a] = "Alertas"]
            /\ vistas' = [vistas EXCEPT ![a].disponibilidad =
                            FilasDisponibilidad(Vista(a), vistas[a].filtro)]
    /\ UNCHANGED <<db, txn, lock, cur, hist, ref, frames, mig, dia>>

\* "Error al cargar datos" or "Error al actualizar disponibilidad" of the
\* start dismissed: __init__ goes on to check_stock_alerts.
DescartarCarga(a) ==
    /\ pc[a] \in {"ErrCarga", "ErrDispInicio"}
    /\ pc' = [pc EXCEPT ![a] = "Alertas"]
    /\ UNCHANGED <<db, txn, lock, cur, hist, vistas, ref, frames, mig, dia>>

\* check_stock_alerts: SELECT COUNT(*) of the rows under 10, and the
\* "Alertas de Stock" warning when there is one; an sqlite3.Error is printed.
CheckStockAlerts(a, falla) ==
    /\ pc[a] = "Alertas"
    /\ pc' = [pc EXCEPT ![a] =
                IF ~falla /\ BajoMinimo(Vista(a)) # {} THEN "AvisoInicio" ELSE "Editing"]
    /\ UNCHANGED <<db, txn, lock, cur, hist, vistas, ref, frames, mig, dia>>

\* "Alertas de Stock" dismissed: the window waits for events.
CerrarAvisoInicio(a) ==
    /\ pc[a] = "AvisoInicio"
    /\ pc' = [pc EXCEPT ![a] = "Editing"]
    /\ UNCHANGED <<db, txn, lock, cur, hist, vistas, ref, frames, mig, dia>>

\* python main.py database: migrate connects, runs create_tables on the
\* tables that exist, loads the CSV file and normalizes it.
MigrarInicio(csv) ==
    /\ mig.paso = 0
    /\ hist.cargas < MaxCargas
    /\ mig' = [paso |-> 1, csv |-> csv, escrito |-> FALSE]
    /\ hist' = [hist EXCEPT !.cargas = @ + 1]
    /\ UNCHANGED <<db, txn, lock, pc, cur, vistas, ref, frames, dia>>

\* A step of migrate on a frame of no rows runs no statement (its loop has
\* nothing to go over and its commit has nothing to commit), so it needs no
\* lock; on any other frame its first statement takes the write lock.
SinSentencias(csv) == NormalizeDataframe(csv) = <<>>

\* migrate_cities and its commit.
PasoCities ==
    /\ mig.paso = 1
    /\ lock = "libre" \/ SinSentencias(mig.csv)
    /\ db' = MigrateCities(db, NormalizeDataframe(mig.csv))
    /\ mig' = [mig EXCEPT !.paso = 2, !.escrito = @ \/ db' # db]
    /\ UNCHANGED <<txn, lock, pc, cur, hist, vistas, ref, frames, dia>>

\* migrate_products and its commit.
PasoProducts ==
    /\ mig.paso = 2
    /\ lock = "libre" \/ SinSentencias(mig.csv)
    /\ db' = MigrateProducts(db, NormalizeDataframe(mig.csv))
    /\ mig' = [mig EXCEPT !.paso = 3, !.escrito = @ \/ db' # db]
    /\ UNCHANGED <<txn, lock, pc, cur, hist, vistas, ref, frames, dia>>

\* migrate_clients and its commit.
PasoClients ==
    /\ mig.paso = 3
    /\ lock = "libre" \/ SinSentencias(mig.csv)
    /\ db' = MigrateClients(db, NormalizeDataframe(mig.csv))
    /\ mig' = [mig EXCEPT !.paso = 4, !.escrito = @ \/ db' # db]
    /\ UNCHANGED <<txn, lock, pc, cur, hist, vistas, ref, frames, dia>>

\* migrate_sales and its commit.
PasoSales ==
    /\ mig.paso = 4
    /\ lock = "libre" \/ SinSentencias(mig.csv)
    /\ db' = MigrateSales(db, NormalizeDataframe(mig.csv))
    /\ mig' = [mig EXCEPT !.paso = 5, !.escrito = @ \/ db' # db]
    /\ UNCHANGED <<txn, lock, pc, cur, hist, vistas, ref, frames, dia>>

\* initialize_inventory and its commit; migrate disconnects.
PasoInventory(elegido) ==
    /\ mig.paso = 5
    /\ lock = "libre" \/ SinSentencias(mig.csv)
    /\ LET df == NormalizeDataframe(mig.csv)
           despues == InitializeInventory(db, df, elegido)
       IN  /\ elegido \in UltimoStock(df)
           /\ db' = despues
           /\ hist' = HistCarga(hist, db, despues,
                                {ClaveDePar(db, par) : par \in ParesDe(df)})
    /\ mig' = NoMig
    /\ UNCHANGED <<txn, lock, pc, cur, vistas, ref, frames, dia>>

\* The step migrate is at finds the write lock held by a form until the busy
\* timeout: OperationalError, the except branch rolls back and re-raises.
\* The steps before it stay committed.
MigrarBloqueado ==
    /\ mig.paso \in 1..5
    /\ lock # "libre"
    /\ ~SinSentencias(mig.csv)
    /\ mig' = NoMig
    /\ UNCHANGED <<db, txn, lock, pc, cur, hist, vistas, ref, frames, dia>>

\* The step migrate is at raises (an sqlite3.Error of an execute or of the
\* commit, the ValueError of int() or float() on a cell that is not a number,
\* a KeyError): conn.rollback() drops what the step itself wrote, the steps
\* before it stay committed.
MigrarFalla ==
    /\ mig.paso \in 1..5
    /\ mig' = NoMig
    /\ UNCHANGED <<db, txn, lock, pc, cur, hist, vistas, ref, frames, dia>>

\* The day changes.
Medianoche ==
    /\ dia < DiaFin
    /\ dia' = dia + 1
    /\ UNCHANGED <<db, txn, lock, pc, cur, hist, vistas, ref, frames, mig>>

\* "Registrar Pedido" pressed with the widgets holding f: lines 493-557, up
\* to the first dialog or to the id lookup.  falla: the SELECT raises. The
\* f-string of the shortage prompt raises ValueError on a shortfall str()
\* refuses: rollback, "Error inesperado", and no prompt.
Submit(a, f, falla) ==
    /\ pc[a] = "Editing"
    /\ hist.n < MaxPedidos
    /\ LET v == Validar(f)
           l == Leidos(f)
           filas == BuscarStock(Vista(a), f.ciudad, f.producto)
       IN  IF v # "ok"
           THEN /\ ~falla
                /\ pc' = [pc EXCEPT ![a] = v]
                /\ cur' = [cur EXCEPT ![a] = [NoLocals EXCEPT !.form = f]]
                /\ UNCHANGED txn
           ELSE IF falla
           THEN /\ pc' = [pc EXCEPT ![a] = "ErrBD"]
                /\ cur' = [cur EXCEPT ![a] = l]
                /\ txn' = [txn EXCEPT ![a] = Rollback(txn[a])]
           ELSE IF filas = {}
           THEN /\ pc' = [pc EXCEPT ![a] = "ErrNoDisponible"]
                /\ cur' = [cur EXCEPT ![a] = l]
                /\ UNCHANGED txn
           ELSE LET k == CHOOSE x \in filas : TRUE
                    stock_actual == Vista(a).inventario[k]
                    l2 == [l EXCEPT !.stock_actual = stock_actual,
                                    !.id_inventario = Vista(a).id_inventario[k],
                                    !.id_producto = k[1], !.id_ciudad = k[2]]
                    faltante == Faltante(CifrasCantidad(f.cantidad), stock_actual)
                IN  IF ~StockInsuficiente(stock_actual, l.cantidad)
                    THEN /\ pc' = [pc EXCEPT ![a] = "MaxId"]
                         /\ cur' = [cur EXCEPT ![a] = l2]
                         /\ UNCHANGED txn
                    ELSE IF ~Mostrable(faltante)
                    THEN /\ pc' = [pc EXCEPT ![a] = "ErrInesperado"]
                         /\ cur' = [cur EXCEPT ![a] = l2]
                         /\ txn' = [txn EXCEPT ![a] = Rollback(txn[a])]
                    ELSE /\ pc' = [pc EXCEPT ![a] = "Confirm"]
                         /\ cur' = [cur EXCEPT ![a] = [l2 EXCEPT !.faltante = faltante]]
                         /\ UNCHANGED txn
    /\ UNCHANGED <<db, lock, hist, vistas, ref, frames, mig, dia>>

\* The answer to "Stock Insuficiente ... ¿Deseas continuar de todos modos?".
Responder(a, respuesta) ==
    /\ pc[a] = "Confirm"
    /\ IF respuesta
       THEN /\ pc' = [pc EXCEPT ![a] = "MaxId"]
            /\ cur' = [cur EXCEPT ![a].respuesta = TRUE]
       ELSE /\ pc' = [pc EXCEPT ![a] = "Editing"]
            /\ cur' = [cur EXCEPT ![a] = NoLocals]
    /\ UNCHANGED <<db, txn, lock, hist, vistas, ref, frames, mig, dia>>

\* SELECT MAX(id_venta) FROM ventas; nuevo_id_venta = (max_id or 0) + 1;
\* fecha_actual = datetime.now()
SelectMaxId(a) ==
    /\ pc[a] = "MaxId"
    /\ pc' = [pc EXCEPT ![a] = "Insert"]
    /\ cur' = [cur EXCEPT ![a].nuevo_id_venta = NuevoIdVenta(Vista(a).ventas),
                          ![a].fecha_actual = Now]
    /\ UNCHANGED <<db, txn, lock, hist, vistas, ref, frames, mig, dia>>

\* fecha_entrega from the second datetime.now(), and the INSERT INTO ventas,
\* which opens the transaction and takes the write lock.
InsertVenta(a) ==
    /\ pc[a] = "Insert"
    /\ FechaValida(Now, cur[a].dias_entrega)
    /\ lock \in {"libre", a}
    /\ cur[a].nuevo_id_venta \notin Ids(Vista(a).ventas)
    /\ CabeEnSqlite(cur[a].cantidad)
    /\ cur[a].precio_unitario.clase # "nan"
    /\ LET l == [cur[a] EXCEPT !.fecha_entrega = FechaEntrega(Now, cur[a].dias_entrega)]
       IN  /\ cur' = [cur EXCEPT ![a] = l]
           /\ txn' = [txn EXCEPT ![a] =
                        [@ EXCEPT !.abierta = TRUE,
                                  !.ventas = @ \cup {NuevaVenta(l, l.fecha_actual)}]]
    /\ lock' = a
    /\ pc' = [pc EXCEPT ![a] = "Update"]
    /\ UNCHANGED <<db, hist, vistas, ref, frames, mig, dia>>

\* The sum of the second datetime.now() and the timedelta is no date:
\* OverflowError, rollback, "Error inesperado".
FechaFueraDeRango(a) ==
    /\ pc[a] = "Insert"
    /\ ~FechaValida(Now, cur[a].dias_entrega)
    /\ txn' = [txn EXCEPT ![a] = Rollback(txn[a])]
    /\ pc' = [pc EXCEPT ![a] = "ErrInesperado"]
    /\ UNCHANGED <<db, lock, cur, hist, vistas, ref, frames, mig, dia>>

\* The quantity does not fit the 64-bit INTEGER of SQLite: binding it
\* raises OverflowError before the statement runs; rollback, "Error
\* inesperado".
InsertDesborda(a) ==
    /\ pc[a] = "Insert"
    /\ FechaValida(Now, cur[a].dias_entrega)
    /\ ~CabeEnSqlite(cur[a].cantidad)
    /\ txn' = [txn EXCEPT ![a] = Rollback(txn[a])]
    /\ pc' = [pc EXCEPT ![a] = "ErrInesperado"]
    /\ UNCHANGED <<db, lock, cur, hist, vistas, ref, frames, mig, dia>>

\* The INSERT finds the id taken (PRIMARY KEY): IntegrityError, rollback.
InsertDuplicado(a) ==
    /\ pc[a] = "Insert"
    /\ FechaValida(Now, cur[a].dias_entrega)
    /\ CabeEnSqlite(cur[a].cantidad)
    /\ lock \in {"libre", a}
    /\ cur[a].nuevo_id_venta \in Ids(Vista(a).ventas)
    /\ txn' = [txn EXCEPT ![a] = Rollback(txn[a])]
    /\ lock' = "libre"
    /\ pc' = [pc EXCEPT ![a] = "ErrBD"]
    /\ UNCHANGED <<db, cur, hist, vistas, ref, frames, mig, dia>>

\* The price is a NaN, which is bound as NULL: the INSERT breaks NOT NULL on
\* precio_unitario, IntegrityError, rollback.
InsertNulo(a) ==
    /\ pc[a] = "Insert"
    /\ FechaValida(Now, cur[a].dias_entrega)
    /\ CabeEnSqlite(cur[a].cantidad)
    /\ lock \in {"libre", a}
    /\ cur[a].precio_unitario.clase = "nan"
    /\ txn' = [txn EXCEPT ![a] = Rollback(txn[a])]
    /\ lock' = "libre"
    /\ pc' = [pc EXCEPT ![a] = "ErrBD"]
    /\ UNCHANGED <<db, cur, hist, vistas, ref, frames, mig, dia>>

\* The INSERT finds the write lock held by the other connection until the
\* busy timeout: OperationalError, rollback.
InsertBloqueado(a) ==
    /\ pc[a] = "Insert"
    /\ FechaValida(Now, cur[a].dias_entrega)
    /\ CabeEnSqlite(cur[a].cantidad)
    /\ lock \notin {"libre", a}
    /\ txn' = [txn EXCEPT ![a] = Rollback(txn[a])]
    /\ pc' = [pc EXCEPT ![a] = "ErrBD"]
    /\ UNCHANGED <<db, lock, cur, hist, vistas, ref, frames, mig, dia>>

\* UPDATE inventario SET stock_actual = nuevo_stock WHERE id_inventario = ?:
\* the row that has the id read at the SELECT, if there still is one.
UpdateInventario(a) ==
    /\ pc[a] = "Update"
    /\ LET nuevo_stock == NuevoStock(cur[a].stock_actual, cur[a].cantidad)
           filas == {k \in DOMAIN db.id_inventario :
                        db.id_inventario[k] = cur[a].id_inventario}
       IN  /\ cur' = [cur EXCEPT ![a].nuevo_stock = nuevo_stock]
           /\ txn' = [txn EXCEPT ![a].inventario =
                        [x \in (DOMAIN @) \cup filas |->
                            IF x \in filas THEN nuevo_stock ELSE @[x]]]
    /\ pc' = [pc EXCEPT ![a] = "Commit"]
    /\ UNCHANGED <<db, lock, hist, vistas, ref, frames, mig, dia>>

\* self.conn.commit(), then the "Pedido Registrado" dialog.
Commit(a) ==
    /\ pc[a] = "Commit"
    /\ db' = Aplicar(db, txn[a])
    /\ txn' = [txn EXCEPT ![a] = NoTxn]
    /\ lock' = "libre"
    /\ hist' = HistPedido(hist, cur[a], db)
    /\ pc' = [pc EXCEPT ![a] = "Info"]
    /\ UNCHANGED <<cur, vistas, ref, frames, mig, dia>>

\* A statement of the commit phase raises sqlite3.Error: rollback, then the
\* error dialog.
Falla(a) ==
    /\ pc[a] \in CommitPcs
    /\ txn' = [txn EXCEPT ![a] = Rollback(txn[a])]
    /\ lock' = IF lock = a THEN "libre" ELSE lock
    /\ pc' = [pc EXCEPT ![a] = "ErrBD"]
    /\ UNCHANGED <<db, cur, hist, vistas, ref, frames, mig, dia>>

\* "Pedido Registrado" dismissed: limpiar_formulario.
Aceptar(a) ==
    /\ pc[a] = "Info"
    /\ pc' = [pc EXCEPT ![a] = "RefDisp"]
    /\ UNCHANGED <<db, txn, lock, cur, hist, vistas, ref, frames, mig, dia>>

\* Where registrar_pedido goes after its two refreshes: the replenishment
\* advisory when the stock it wrote is low, else it returns.
TrasRefresco(l) == IF NecesitaReposicion(l.nuevo_stock) THEN "Aviso" ELSE "Editing"

\* actualizar_disponibilidad after the commit: the table is cleared, then
\* filled from one SELECT; on sqlite3.Error it stays empty and "Error al
\* actualizar disponibilidad" is shown.
RefrescarDisponibilidad(a, falla) ==
    /\ pc[a] = "RefDisp"
    /\ IF falla
       THEN /\ pc' = [pc EXCEPT ![a] = "ErrRefDisp"]
            /\ vistas' = [vistas EXCEPT ![a].disponibilidad = {}]
       ELSE /\ pc' = [pc EXCEPT ![a] = "RefAlertas"]
            /\ vistas' = [vistas EXCEPT ![a].disponibilidad =
                            FilasDisponibilidad(Vista(a), vistas[a].filtro)]
    /\ UNCHANGED <<db, txn, lock, cur, hist, ref, frames, mig, dia>>

\* actualizar_alertas after the commit, a second SELECT.
RefrescarAlertas(a, falla) ==
    /\ pc[a] = "RefAlertas"
    /\ IF falla
       THEN /\ pc' = [pc EXCEPT ![a] = "ErrRefAlertas"]
            /\ vistas' = [vistas EXCEPT ![a].alertas = {}]
            /\ UNCHANGED cur
       ELSE /\ pc' = [pc EXCEPT ![a] = TrasRefresco(cur[a])]
            /\ vistas' = [vistas EXCEPT ![a].alertas = FilasAlertas(Vista(a))]
            /\ cur' = [cur EXCEPT ![a] =
                         IF TrasRefresco(cur[a]) = "Editing" THEN NoLocals ELSE @]
    /\ UNCHANGED <<db, txn, lock, hist, ref, frames, mig, dia>>

\* The error dialog of a refresh after the commit dismissed.
DescartarRefresco(a) ==
    /\ pc[a] \in {"ErrRefDisp", "ErrRefAlertas"}
    /\ IF pc[a] = "ErrRefDisp"
       THEN /\ pc' = [pc EXCEPT ![a] = "RefAlertas"]
            /\ UNCHANGED cur
       ELSE /\ pc' = [pc EXCEPT ![a] = TrasRefresco(cur[a])]
            /\ cur' = [cur EXCEPT ![a] =
                         IF TrasRefresco(cur[a]) = "Editing" THEN NoLocals ELSE @]
    /\ UNCHANGED <<db, txn, lock, hist, vistas, ref, frames, mig, dia>>

\* "Alerta de Reposición" dismissed.
CerrarAviso(a) ==
    /\ pc[a] = "Aviso"
    /\ pc' = [pc EXCEPT ![a] = "Editing"]
    /\ cur' = [cur EXCEPT ![a] = NoLocals]
    /\ UNCHANGED <<db, txn, lock, hist, vistas, ref, frames, mig, dia>>

\* An error dialog dismissed: registrar_pedido returns.
Descartar(a) ==
    /\ pc[a] \in ErrDlgs
    /\ pc' = [pc EXCEPT ![a] = "Editing"]
    /\ cur' = [cur EXCEPT ![a] = NoLocals]
    /\ UNCHANGED <<db, txn, lock, hist, vistas, ref, frames, mig, dia>>

\* The filter combobox of the availability tab, which is readonly: "Todas"
\* and the cities load_initial_data read, once it has filled the list and
\* selected "Todas"; nothing to pick, and the value "", when its SELECT of
\* the cities raised before.
FiltroChoices(a) ==
    IF vistas[a].filtro = "" THEN {} ELSE {"Todas"} \cup vistas[a].ciudades

\* A city picked in the filter, or "Actualizar" pressed on the availability
\* tab: actualizar_disponibilidad.
ActualizarDisponibilidad(a, filtro, falla) ==
    /\ pc[a] = "Editing"
    /\ pc' = [pc EXCEPT ![a] = IF falla THEN "ErrDisp" ELSE "Editing"]
    /\ vistas' = [vistas EXCEPT
                    ![a].filtro = filtro,
                    ![a].disponibilidad =
                        IF falla THEN {} ELSE FilasDisponibilidad(Vista(a), filtro)]
    /\ UNCHANGED <<db, txn, lock, cur, hist, ref, frames, mig, dia>>

\* "Actualizar" pressed on the alert tab: actualizar_alertas.
ActualizarAlertas(a, falla) ==
    /\ pc[a] = "Editing"
    /\ pc' = [pc EXCEPT ![a] = IF falla THEN "ErrAlertas" ELSE "Editing"]
    /\ vistas' = [vistas EXCEPT ![a].alertas =
                    IF falla THEN {} ELSE FilasAlertas(Vista(a))]
    /\ UNCHANGED <<db, txn, lock, cur, hist, ref, frames, mig, dia>>

\* The error dialog of a refresh asked from a tab dismissed.
DescartarVista(a) ==
    /\ pc[a] \in {"ErrDisp", "ErrAlertas"}
    /\ pc' = [pc EXCEPT ![a] = "Editing"]
    /\ UNCHANGED <<db, txn, lock, cur, hist, vistas, ref, frames, mig, dia>>

\* migrate_cities / migrate_products on a frame whose column holds nombres,
\* as migrate runs them: the commit at the end of the loop, or the rollback
\* of migrate's except branch when the loop raised.
MigrateNames(nombres) ==
    /\ ref.tabla.seq + Len(Unique(nombres)) <= MaxSeq
    /\ LET r == Resolver(ref.tabla, <<>>, Unique(nombres))
       IN  ref' = [tabla |-> IF r.resultado = "ok" THEN r.tabla ELSE ref.tabla,
                   entrada |-> nombres,
                   resultado |-> r.resultado,
                   mapa |-> IF r.resultado = "ok" THEN r.mapa ELSE <<>>]
    /\ UNCHANGED <<db, txn, lock, pc, cur, hist, vistas, frames, mig, dia>>

\* clean_df = normalize_dataframe(df), as migrate calls it on the frame it
\* loaded: df is the caller's frame after the call.
NormalizeStep ==
    /\ frames.paso = "cargado"
    /\ frames' = [df |-> Asignar(frames.df),
                  clean_df |-> Dropna(Asignar(frames.df)),
                  paso |-> "normalizado"]
    /\ UNCHANGED <<db, txn, lock, pc, cur, hist, vistas, ref, mig, dia>>

\* ---------------------------------------------------------- specifications
\* The tables exist and are empty (create_tables); no window is open, no
\* migrate is running.
Init ==
    /\ db = EmptyDb
    /\ txn = [a \in Apps |-> NoTxn]
    /\ lock = "libre"
    /\ pc = [a \in Apps |-> "Cerrada"]
    /\ cur = [a \in Apps |-> NoLocals]
    /\ hist = NoHist
    /\ vistas = [a \in Apps |-> VistasCerrada]
    /\ ref = NoRef
    /\ frames = NoFrames
    /\ mig = NoMig
    /\ dia = Hoy

\* One form; operations one after another.
SeqApps == {"ui1"}

\* registrar_pedido without its refreshes: the handler from the press of the
\* button to the dialog that ends it, with the three ways its INSERT step
\* raises on the values of the form itself.
Pedido(a, formularios) ==
    \/ /\ pc[a] = "Editing"
       /\ \E f \in formularios, falla \in BOOLEAN : Submit(a, f, falla)
    \/ \E r \in BOOLEAN : Responder(a, r)
    \/ SelectMaxId(a)
    \/ InsertVenta(a)
    \/ FechaFueraDeRango(a)
    \/ InsertDesborda(a)
    \/ InsertNulo(a)
    \/ UpdateInventario(a)
    \/ Commit(a)
    \/ Falla(a)
    \/ Aceptar(a)
    \/ CerrarAviso(a)
    \/ Descartar(a)

\* The two refreshes that follow a committed order; fallas: whether their
\* SELECTs may raise.
Refresco(a, fallas) ==
    \/ \E falla \in fallas : RefrescarDisponibilidad(a, falla)
    \/ \E falla \in fallas : RefrescarAlertas(a, falla)

\* registrar_pedido, a refresh of which may fail.
Paso(a, formularios) ==
    \/ Pedido(a, formularios)
    \/ Refresco(a, BOOLEAN)
    \/ DescartarRefresco(a)

\* One process of python main.py database at a time, on one of the files.
Migrar(files) ==
    \/ \E csv \in files : MigrarInicio(csv)
    \/ PasoCities
    \/ PasoProducts
    \/ PasoClients
    \/ PasoSales
    \/ \E e \in UltimoStock(NormalizeDataframe(mig.csv)) : PasoInventory(e)

\* The files of the runs that have a form beside the loads: an order of a
\* pair, and a later order of the pair that the ledger refuses.
CsvFilesMixtos == {<<V1>>, <<V3>>}

Carga == Migrar(CsvFilesMixtos)

\* The application started, orders entered in its form and bulk loads run
\* beside it, the steps of the two processes interleaved.
Next ==
    \/ \E a \in SeqApps :
        \/ \E falla \in BOOLEAN : Abrir(a, falla)
        \/ \E falla \in BOOLEAN : CargarProductos(a, falla)
        \/ \E falla \in BOOLEAN : CargarDisponibilidad(a, falla)
        \/ DescartarCarga(a)
        \/ \E falla \in BOOLEAN : CheckStockAlerts(a, falla)
        \/ CerrarAvisoInicio(a)
        \/ Paso(a, FormsBasicas(a))
        \/ InsertDuplicado(a)
    \/ Carga
    \/ MigrarBloqueado

Spec == Init /\ [][Next]_vars

\* The files of the runs on the ids of the ledger: an order of id 1, an
\* order of id 5, an order the ledger refuses, which leaves a snapshot row
\* and an empty ledger, and a file of no complete row.
CsvFilesIds == {<<V1>>, <<V5>>, <<V3>>, <<V4>>}

\* The forms of these runs: 5 units of every offered (ciudad, producto).
FormsIds(a) ==
    {Form(<<" ", "K", "9">>, ciu, pro, <<"$", "2">>, <<"5">>, <<"2">>) :
        ciu \in CiudadChoices(a) \ {""}, pro \in ProductoChoices(a) \ {""}}

\* The application started, orders entered in its form and these files loaded
\* beside it.
NextIds ==
    \/ \E a \in SeqApps :
        \/ \E falla \in BOOLEAN : Abrir(a, falla)
        \/ \E falla \in BOOLEAN : CargarProductos(a, falla)
        \/ \E falla \in BOOLEAN : CargarDisponibilidad(a, falla)
        \/ DescartarCarga(a)
        \/ \E falla \in BOOLEAN : CheckStockAlerts(a, falla)
        \/ CerrarAvisoInicio(a)
        \/ Paso(a, FormsIds(a))
        \/ InsertDuplicado(a)
    \/ Migrar(CsvFilesIds)
    \/ MigrarBloqueado

SpecIds == Init /\ [][NextIds]_vars

\* A store filled by one migrate of a CSV whose second row is incomplete.
CsvInicial == <<V1, V4, V2>>

DbInicial ==
    Migrate(EmptyDb, CsvInicial,
            CHOOSE e \in UltimoStock(NormalizeDataframe(CsvInicial)) : TRUE)

\* The two windows opened on that store.
InitCargado ==
    /\ db = DbInicial
    /\ txn = [a \in Apps |-> NoTxn]
    /\ lock = "libre"
    /\ pc = [a \in Apps |-> "Editing"]
    /\ cur = [a \in Apps |-> NoLocals]
    /\ hist = HistCarga(NoHist, EmptyDb, DbInicial, DOMAIN DbInicial.inventario)
    /\ vistas = [a \in Apps |-> VistasInicio(DbInicial)]
    /\ ref = NoRef
    /\ frames = NoFrames
    /\ mig = NoMig
    /\ dia = Hoy

\* One form on the filled store, every combination of field texts.
NextForm == \E a \in SeqApps : Paso(a, Forms(a))

SpecForm == InitCargado /\ [][NextForm]_vars

\* Two forms (two processes of the application) on the same store, their
\* statements interleaved; the SELECTs of the refreshes run. The forms entered:
\* 5 and 12 units of one pair, and three whose INSERT raises on a value of
\* the form (a NaN price, a lead time before the first date, 2^63 units).
FormsConc ==
    {Form(<<" ", "K", "9">>, "Bogota", "Frutas", <<"$", "2">>, cant, <<"2">>) :
        cant \in {<<"5">>, <<"1", "2">>}}
    \cup
    {Form(<<" ", "K", "9">>, "Bogota", "Frutas", <<"n", "a", "n">>, <<"5">>, <<"2">>),
     Form(<<" ", "K", "9">>, "Bogota", "Frutas", <<"$", "2">>, <<"5">>, <<"-", "9">>),
     Form(<<" ", "K", "9">>, "Bogota", "Frutas", <<"$", "2">>,
          <<"9", "2", "2", "3", "3", "7", "2", "0", "3", "6",
            "8", "5", "4", "7", "7", "5", "8", "0", "8">>, <<"2">>)}

NextConc ==
    \E a \in Apps :
        \/ Pedido(a, FormsConc)
        \/ Refresco(a, {FALSE})
        \/ InsertDuplicado(a)
        \/ InsertBloqueado(a)

SpecConc == InitCargado /\ [][NextConc]_vars

\* The snapshot quantities of the stores the tables are shown for: around the
\* two tier limits.
StockValues == {0, StockMinimo - 1, StockMinimo, StockMinimo + 1,
                StockMedio - 1, StockMedio, StockMedio + 1}

\* The loaded store with its two snapshot rows at any of these quantities.
DbsConStock ==
    {[DbInicial EXCEPT !.inventario = f] :
        f \in [DOMAIN DbInicial.inventario -> StockValues]}

\* One form started on such a store.
InitVistas ==
    /\ db \in DbsConStock
    /\ txn = [a \in Apps |-> NoTxn]
    /\ lock = "libre"
    /\ pc = [a \in Apps |-> "Editing"]
    /\ cur = [a \in Apps |-> NoLocals]
    /\ hist = HistCarga(NoHist, EmptyDb, db, DOMAIN db.inventario)
    /\ vistas = [a \in Apps |-> VistasInicio(db)]
    /\ ref = NoRef
    /\ frames = NoFrames
    /\ mig = NoMig
    /\ dia = Hoy

\* The two tables refreshed, the filter changed.
NextVistas ==
    \/ \E f \in FiltroChoices("ui1") \cup {vistas["ui1"].filtro},
          falla \in BOOLEAN :
            ActualizarDisponibilidad("ui1", f, falla)
    \/ \E falla \in BOOLEAN : ActualizarAlertas("ui1", falla)
    \/ DescartarVista("ui1")

SpecVistas == InitVistas /\ [][NextVistas]_vars

\* One form on the filled store (snapshots 15 and 8), orders of 3 and of 12,
\* on a day that ends.
FormsEjemplo(a) ==
    {Form(<<" ", "K", "9">>, ciu, pro, <<"$", "2">>, cant, <<"2">>) :
        ciu \in CiudadChoices(a) \ {""}, pro \in ProductoChoices(a) \ {""},
        cant \in {<<"3">>, <<"1", "2">>}}

NextEjemplo ==
    \/ \E a \in SeqApps : Paso(a, FormsEjemplo(a))
    \/ Medianoche

SpecEjemplo == InitCargado /\ [][NextEjemplo]_vars

\* A store filled by one migrate of a CSV whose order left the snapshot of
\* its pair at -1.
DbNegativo ==
    Migrate(EmptyDb, <<V9>>, CHOOSE e \in UltimoStock(NormalizeDataframe(<<V9>>)) : TRUE)

InitNegativo ==
    /\ db = DbNegativo
    /\ txn = [a \in Apps |-> NoTxn]
    /\ lock = "libre"
    /\ pc = [a \in Apps |-> "Editing"]
    /\ cur = [a \in Apps |-> NoLocals]
    /\ hist = HistCarga(NoHist, EmptyDb, DbNegativo, DOMAIN DbNegativo.inventario)
    /\ vistas = [a \in Apps |-> VistasInicio(DbNegativo)]
    /\ ref = NoRef
    /\ frames = NoFrames
    /\ mig = NoMig
    /\ dia = Hoy

\* The longest quantity int() reads: as many nines as its limit of digits.
Nueves == [i \in 1..MaxStrDigits |-> "9"]

\* One form on that store: orders of 3, of 5 and of that quantity.
FormsFaltante(a) ==
    {Form(<<" ", "K", "9">>, ciu, pro, <<"$", "2">>, cant, <<"2">>) :
        ciu \in CiudadChoices(a) \ {""}, pro \in ProductoChoices(a) \ {""},
        cant \in {<<"3">>, <<"5">>, Nueves}}

NextFaltante == \E a \in SeqApps : Paso(a, FormsFaltante(a))

SpecFaltante == InitNegativo /\ [][NextFaltante]_vars

\* Bulk loads alone, of files that also hold two orders of one pair on one
\* date and two orders of one id.
CsvRowsCarga == CsvRows \cup {V5, V6}

CsvFilesCarga ==
    {q \in SeqsUpTo(CsvRowsCarga, MaxCsvLen) : q # <<>> /\ SinRepetir(q)}

NextCarga == Migrar(CsvFilesCarga)

SpecCarga == Init /\ [][NextCarga]_vars

\* Reference-data resolution alone: an empty table, then any resolutions.
NextRef == \E nombres \in SeqsUpTo(NombresRef, MaxNombres) \ {<<>>} : MigrateNames(nombres)

SpecRef == Init /\ [][NextRef]_vars

\* Bulk loads that end and bulk loads that raise in one of their steps.
NextFalla ==
    \/ Migrar(CsvFiles)
    \/ MigrarFalla

SpecFalla == Init /\ [][NextFalla]_vars

\* normalize_dataframe alone: a frame loaded from any file of complete and
\* incomplete rows, then the call.
CsvRowsNorm == CsvRowsCarga \cup {V4, V7, V8}

CsvFilesNorm == {q \in SeqsUpTo(CsvRowsNorm, MaxCsvLen) : q # <<>> /\ SinRepetir(q)}

InitNorm ==
    /\ db = EmptyDb
    /\ txn = [a \in Apps |-> NoTxn]
    /\ lock = "libre"
    /\ pc = [a \in Apps |-> "Cerrada"]
    /\ cur = [a \in Apps |-> NoLocals]
    /\ hist = NoHist
    /\ vistas = [a \in Apps |-> VistasCerrada]
    /\ ref = NoRef
    /\ mig = NoMig
    /\ dia = Hoy
    /\ \E csv \in CsvFilesNorm, texto \in DtypesTexto :
          frames = [df |-> LoadCsvIntoDf(csv, texto), clean_df |-> NoFrame,
                    paso |-> "cargado"]

NextNorm == NormalizeStep

SpecNorm == InitNorm /\ [][NextNorm]_vars

\* ------------------------------------------------------------------ claims
CommitStep(a) == pc[a] = "Commit" /\ pc'[a] = "Info"

\* Where registrar_pedido is between its commit and its return.
TrasCommit == {"Info", "RefDisp", "ErrRefDisp", "RefAlertas", "ErrRefAlertas", "Aviso"}

RechazoCampos == {"ErrCampos", "ErrCantidad", "ErrPrecio", "ErrValor"}

\* The committed row of the submission form a is in.
VentaDe(a) == CHOOSE v \in db.ventas : v.id_venta = cur[a].nuevo_id_venta

\* C1 as stated: for every pair, after orders committed one after another
\* by the form, the snapshot equals the quantity the bulk load gave it minus
\* the sum of the quantities of the orders committed for the pair, also when
\* an order was committed through a confirmed shortage.
C1_CommitSum ==
    \A k \in DOMAIN db.inventario :
        db.inventario[k] = hist.base[k] - hist.pedido[k]

\* C1 amended: for every pair, after orders committed one after another by
\* the form, the snapshot equals the quantity the bulk load gave it minus the
\* sum, over the orders committed for the pair, of min(quantity, snapshot
\* quantity the order read): the sum of the quantities when no order
\* exceeded the stock, and never less than the stock minus that sum.
C1_SurtidoSum ==
    \A k \in DOMAIN db.inventario :
        /\ db.inventario[k] = hist.base[k] - hist.surtido[k]
        /\ db.inventario[k] >= hist.base[k] - hist.pedido[k]
        /\ (hist.surtido[k] = hist.pedido[k]
                => db.inventario[k] = hist.base[k] - hist.pedido[k])

\* Two orders committed for the pair that had 8: 3, which leaves 5, then 12
\* through a confirmed shortage, which leaves 0.
C1_Witness ==
    \E k \in DOMAIN db.inventario :
        /\ hist.n = 2
        /\ hist.base[k] = 8
        /\ hist.pedido[k] = 15
        /\ hist.surtido[k] = 8
        /\ db.inventario[k] = 0

\* C2: a failure raised in the commit phase (id lookup, insert, update,
\* commit) changes nothing in the store and leaves no write pending and the
\* write lock released; until its commit the order has no row in the ledger;
\* the error dialog is then dismissed to Editing without a write.
C2_AllOrNothing ==
    /\ [](\A a \in Apps :
            /\ pc[a] \in {"ErrBD", "ErrInesperado"} => (txn[a] = NoTxn /\ lock # a)
            /\ pc[a] \in {"Update", "Commit"} =>
                  /\ cur[a].nuevo_id_venta \notin Ids(db.ventas)
                  /\ lock = a)
    /\ [][\A a \in Apps :
            /\ (pc[a] \in CommitPcs /\ pc'[a] \in {"ErrBD", "ErrInesperado"}) =>
                  (db' = db /\ txn'[a] = NoTxn /\ lock' # a)
            /\ (pc[a] \in {"ErrBD", "ErrInesperado"} /\ pc'[a] # pc[a]) =>
                  (pc'[a] = "Editing" /\ db' = db /\ txn' = txn)]_vars

\* The commit itself failed, after the insert and the update of 15 to 10.
C2_Witness ==
    /\ pc["ui1"] = "ErrBD"
    /\ cur["ui1"].fecha_actual = Hoy
    /\ cur["ui1"].stock_actual = 15
    /\ cur["ui1"].nuevo_stock = 10

\* C3 as stated: with two forms submitting for the same pair, the snapshot
\* reflects every committed order: it is the stock at the bulk load minus
\* the committed quantities, floored at 0.
C3_NoLostUpdate ==
    \A k \in DOMAIN db.inventario :
        db.inventario[k] = Max0(0, hist.base[k] - hist.pedido[k])

\* C4 as stated: whenever the snapshot read is below the quantity the
\* shortage prompt is shown, and only then, and it carries quantity - stock:
\* the number shown plus the stock read is the quantity written in the field,
\* and it is their difference where the quantity is held as an integer;
\* declining it writes nothing and returns to Editing; the commit phase is
\* entered with stock < quantity only after a yes.
C4_Shortage ==
    /\ [](\A a \in Apps :
            /\ pc[a] = "Confirm" =>
                  /\ cur[a].stock_actual < cur[a].cantidad
                  /\ cur[a].faltante.signo = 1
                  /\ cur[a].stock_actual >= 0 =>
                        SumaCifras(cur[a].faltante.cifras, cur[a].stock_actual)
                            = CifrasCantidad(cur[a].form.cantidad)
                  /\ cur[a].stock_actual < 0 =>
                        RestaCifras(cur[a].faltante.cifras, -cur[a].stock_actual)
                            = CifrasCantidad(cur[a].form.cantidad)
                  /\ cur[a].cantidad < Grande =>
                        Decimal(cur[a].faltante.cifras)
                            = cur[a].cantidad - cur[a].stock_actual
                  /\ ~cur[a].respuesta
            /\ (pc[a] \in CommitPcs \cup TrasCommit
                  /\ cur[a].stock_actual < cur[a].cantidad) => cur[a].respuesta)
    /\ [][\A a \in Apps :
            /\ (pc[a] = "Editing" /\ pc'[a] \in {"Confirm", "MaxId", "ErrInesperado"}) =>
                  /\ cur'[a].stock_actual = db.inventario[ClaveDe(cur'[a])]
                  /\ pc'[a] = "Confirm" <=> cur'[a].stock_actual < cur'[a].cantidad
            /\ (pc[a] = "Confirm" /\ pc'[a] # "Confirm") =>
                  /\ pc'[a] \in {"Editing", "MaxId"}
                  /\ pc'[a] = "Editing" => (db' = db /\ txn' = txn)
                  /\ pc'[a] = "MaxId" => cur'[a].respuesta]_vars

\* A form with a required field missing, a quantity <= 0 or a price <= 0.
C5_Invalida(f) ==
    \/ Strip(f.cliente) = <<>>
    \/ f.ciudad = ""
    \/ f.producto = ""
    \/ PrecioText(f) = <<>>
    \/ (ParseInt(f.cantidad).ok /\ ParseInt(f.cantidad).val <= 0)
    \/ (ParseFloat(PrecioText(f)).ok /\ NoPositivo(ParseFloat(PrecioText(f)).val))

\* C5: a submission with a missing field, a quantity <= 0 or a price <= 0
\* ends in a field-error dialog and then in Editing, and neither step writes.
C5_RejectedBeforeWrite ==
    [][\A a \in Apps :
        /\ (pc[a] = "Editing" /\ pc'[a] # "Editing" /\ C5_Invalida(cur'[a].form))
              => (pc'[a] \in RechazoCampos /\ db' = db /\ txn' = txn /\ lock' = lock)
        /\ pc[a] \in RechazoCampos
              => (pc'[a] \in {pc[a], "Editing"} /\ db' = db /\ txn' = txn)]_vars

\* Quantity 0 with every other field valid and the pair in stock.
C5_Witness ==
    /\ pc["ui1"] = "ErrCantidad"
    /\ cur["ui1"].form =
          Form(<<" ", "K", "9", "\n">>, "Bogota", "Frutas", <<"$", "1", "e", "2">>,
               <<"0">>, <<"2">>)

\* C6 as stated: no order is committed with a lead time of zero or less.
C6_DiasPositivos ==
    \A a \in Apps : pc[a] = "Info" => VentaDe(a).tiempo_entrega_dias > 0

\* No inventory row for the names of the form.
C7_SinFila(f) ==
    ~ \E k \in DOMAIN db.inventario :
         /\ f.ciudad \in Cities /\ f.producto \in Products
         /\ db.ciudades[f.ciudad] = k[2] /\ db.productos[f.producto] = k[1]

\* C7: a submission for a pair without an inventory row ends in an error
\* dialog (product unavailable when its fields are valid and the SELECT ran)
\* and then in Editing; no row is inserted, created or changed.
C7_Unavailable ==
    [][\A a \in Apps :
        /\ (pc[a] = "Editing" /\ pc'[a] # "Editing" /\ C7_SinFila(cur'[a].form))
              => /\ pc'[a] \in ErrDlgs
                 /\ (~C5_Invalida(cur'[a].form)
                        /\ ParseInt(cur'[a].form.cantidad).ok
                        /\ pc'[a] # "ErrBD") => pc'[a] = "ErrNoDisponible"
                 /\ db' = db /\ txn' = txn
        /\ pc[a] = "ErrNoDisponible"
              => (pc'[a] \in {pc[a], "Editing"} /\ db' = db /\ txn' = txn)]_vars

\* Both names are offered by the comboboxes, the pair has no row.
C7_Witness ==
    /\ pc["ui1"] = "ErrNoDisponible"
    /\ cur["ui1"].form.ciudad = "Bogota"
    /\ cur["ui1"].form.producto = "Lacteos"
    /\ db.ciudades["Bogota"] # 0 /\ db.productos["Lacteos"] # 0

\* C8 as stated: the row a commit adds has the ledger's maximum id plus one,
\* 1 on an empty ledger, and so an id above every id the ledger had; the id
\* looked up is that of the ledger read; ids stay unique over bulk loads and
\* commits.
C8_NextId ==
    /\ [](\A v, w \in db.ventas : v.id_venta = w.id_venta => v = w)
    /\ [][\A a \in Apps :
            /\ (pc[a] = "MaxId" /\ pc'[a] = "Insert") =>
                  cur'[a].nuevo_id_venta = IF db.ventas = {} THEN 1
                                           ELSE MaxOf(Ids(db.ventas)) + 1
            /\ CommitStep(a) =>
                  LET nuevas == db'.ventas \ db.ventas
                  IN  /\ Cardinality(nuevas) = 1
                      /\ \A v \in nuevas :
                            /\ v.id_venta = cur[a].nuevo_id_venta
                            /\ v.id_venta = IF db.ventas = {} THEN 1
                                            ELSE MaxOf(Ids(db.ventas)) + 1
                            /\ \A w \in db.ventas : v.id_venta > w.id_venta]_vars

\* C9 as stated: the row a commit writes is In-Transit, its stock-before the
\* snapshot read, its stock-after max(0, stock-before - quantity), its
\* delivery date the order date plus the lead time; the snapshot becomes that
\* stock-after.
C9_CommittedRow ==
    [][\A a \in Apps :
        CommitStep(a) =>
            \A v \in db'.ventas \ db.ventas :
                LET k == <<v.id_producto, v.id_ciudad>>
                IN  /\ v.estado_entrega = "En transito"
                    /\ k \in DOMAIN db.inventario
                    /\ v.stock_inicial = cur[a].stock_actual
                    /\ v.stock_final = Max0(0, v.stock_inicial - v.cantidad)
                    /\ v.cantidad = cur[a].cantidad
                    /\ v.tiempo_entrega_dias = cur[a].dias_entrega
                    /\ v.fecha_entrega = v.fecha + v.tiempo_entrega_dias
                    /\ db'.inventario[k] = v.stock_final]_vars

\* C10: the advisory is shown only on the way back from a committed order,
\* after its "registered" dialog and its two refreshes, exactly when the
\* stock-after of its row is below 10, and neither showing it nor skipping
\* it, nor a refresh that fails before it, changes the ledger or the
\* snapshot.
C10_Advisory ==
    /\ [](\A a \in Apps :
            pc[a] \in TrasCommit =>
                /\ txn[a] = NoTxn
                /\ cur[a].nuevo_id_venta \in Ids(db.ventas)
                /\ pc[a] = "Aviso" => VentaDe(a).stock_final < StockMinimo)
    /\ [][\A a \in Apps :
            /\ (pc'[a] = "Aviso" /\ pc[a] # "Aviso") =>
                  pc[a] \in {"RefAlertas", "ErrRefAlertas"}
            /\ (pc[a] \in {"RefAlertas", "ErrRefAlertas"} /\ pc'[a] = "Aviso") =>
                  VentaDe(a).stock_final < 10
            /\ (pc[a] \in TrasCommit /\ pc'[a] = "Editing") =>
                  (pc[a] = "Aviso" <=> VentaDe(a).stock_final < 10)
            /\ pc[a] \in TrasCommit => pc'[a] \in TrasCommit \cup {"Editing"}
            /\ (pc[a] \in TrasCommit /\ pc'[a] # pc[a]) =>
                  (db' = db /\ txn' = txn)]_vars

\* Snapshot 15, quantity 5: committed with stock-after 10, the two tables
\* refreshed, and the form is about to return without an advisory.
C10_Witness ==
    /\ pc["ui1"] = "RefAlertas"
    /\ VentaDe("ui1").stock_inicial = 15
    /\ VentaDe("ui1").stock_final = 10
    /\ db.inventario[ClaveDe(cur["ui1"])] = 10
    /\ hist.n = 1

\* The tier the claim gives a quantity.
C11_Tier(q) == IF q < 10 THEN "BAJO" ELSE IF q <= 19 THEN "MEDIO" ELSE "OK"

\* The pairs that have a snapshot row in the city of the filter.
C11_Pares(a) ==
    {<<c, p>> \in Cities \X Products :
        /\ db.ciudades[c] # 0 /\ db.productos[p] # 0
        /\ <<db.productos[p], db.ciudades[c]>> \in DOMAIN db.inventario
        /\ vistas[a].filtro \in {"Todas", c}}

\* The snapshot quantity of a pair.
C11_Stock(c, p) == db.inventario[<<db.productos[p], db.ciudades[c]>>]

\* C11: every row the availability table shows is a snapshot row of the
\* filtered city with its quantity and the tier Low for q < 10, Medium for
\* 10 <= q <= 19 and OK for q >= 20; a refresh whose SELECT ran leaves every
\* such row in the table once, and a refresh of the alert table whose SELECT
\* ran leaves in it exactly the pairs of the Low tier.
C11_Tiers ==
    /\ [](\A a \in SeqApps :
            \A r \in vistas[a].disponibilidad :
                /\ <<r.ciudad, r.producto>> \in C11_Pares(a)
                /\ r.stock = C11_Stock(r.ciudad, r.producto)
                /\ r.estado = C11_Tier(r.stock)
                /\ r.estado \in {"BAJO", "MEDIO", "OK"})
    /\ [][\A a \in SeqApps :
            (pc[a] = "Editing" /\ pc'[a] = "Editing") =>
                /\ vistas'[a].disponibilidad # vistas[a].disponibilidad
                      \/ vistas'[a].filtro # vistas[a].filtro =>
                      /\ {<<r.ciudad, r.producto>> : r \in vistas'[a].disponibilidad}
                            = C11_Pares(a)'
                      /\ Cardinality(vistas'[a].disponibilidad)
                            = Cardinality(C11_Pares(a)')
                /\ vistas'[a].alertas # vistas[a].alertas =>
                      {<<r.ciudad, r.producto>> : r \in vistas'[a].alertas}
                        = {<<r.ciudad, r.producto>> :
                              r \in {x \in FilasDisponibilidad(db, "Todas") :
                                         C11_Tier(x.stock) = "BAJO"}}]_vars

\* Quantities 9 and 20: one row Low and listed as an alert, one row OK.
C11_Witness ==
    /\ \E r \in vistas["ui1"].disponibilidad : r.stock = 20 /\ r.estado = "OK"
    /\ \E r \in vistas["ui1"].disponibilidad : r.stock = 9 /\ r.estado = "BAJO"
    /\ Cardinality(vistas["ui1"].alertas) = 1

\* C12 as stated: a quantity of exactly 10 is shown in the OK tier.
C12_UmbralOK ==
    \A a \in SeqApps : \A r \in vistas[a].disponibilidad :
        r.stock = 10 => r.estado = "OK"

\* C12 amended: a quantity of exactly 10 is shown in the Medium tier, neither
\* Low nor OK, and is not listed as an alert.
C12_UmbralMedio ==
    \A a \in SeqApps :
        /\ \A r \in vistas[a].disponibilidad : r.stock = 10 => r.estado = "MEDIO"
        /\ \A r \in vistas[a].alertas : r.stock_actual # 10

\* Both rows at 10 or below, the alert table refreshed: only the row at 9 is
\* listed.
C12_Witness ==
    /\ \E r \in vistas["ui1"].disponibilidad : r.stock = 10
    /\ \E r \in vistas["ui1"].alertas : r.stock_actual = 9
    /\ Cardinality(vistas["ui1"].alertas) = 1
    /\ Cardinality(DOMAIN db.inventario) = 2

\* The names of ref's table that have a row.
C13_ConFila(t) == {n \in DOMAIN t.ids : t.ids[n] # 0}

\* C13: over any sequence of resolutions with overlapping names, no two names
\* share an identifier, a name that has a row keeps its identifier, a
\* resolution that returns maps exactly its input names, each to the
\* identifier of its row, and resolving the same names again returns the
\* same mapping and leaves the same rows.
C13_Idempotent ==
    /\ [](\A n, m \in C13_ConFila(ref.tabla) :
              ref.tabla.ids[n] = ref.tabla.ids[m] => n = m)
    /\ [][ref' # ref =>
            /\ \A n \in C13_ConFila(ref.tabla) : ref'.tabla.ids[n] = ref.tabla.ids[n]
            /\ ref'.resultado = "ok" =>
                  /\ DOMAIN ref'.mapa = {ref'.entrada[i] : i \in 1..Len(ref'.entrada)}
                  /\ \A n \in DOMAIN ref'.mapa :
                        ref'.mapa[n] # 0 /\ ref'.mapa[n] = ref'.tabla.ids[n]
            /\ (ref.resultado = "ok" /\ ref'.entrada = ref.entrada) =>
                  /\ ref'.resultado = "ok"
                  /\ ref'.mapa = ref.mapa
                  /\ ref'.tabla.ids = ref.tabla.ids]_vars

\* <<"Bogota", "Cali">> resolved after <<"Cali">>: "Cali" keeps id 1 and
\* "Bogota" gets a new one.
C13_Witness ==
    /\ ref.entrada = <<"Bogota", "Cali">>
    /\ ref.resultado = "ok"
    /\ ref.mapa["Cali"] = 1
    /\ ref.mapa["Bogota"] > 1

\* C19 as stated: a resolution whose names include the empty string or the
\* null name fails, and no row exists for the empty string.
C19_NombreVacio ==
    /\ (\E i \in 1..Len(ref.entrada) : ref.entrada[i] \in {"", Nulo})
          => ref.resultado # "ok"
    /\ ref.tabla.ids[""] = 0

\* The step is initialize_inventory with its commit: the load ends.
FinDeCarga == \E e \in UltimoStock(NormalizeDataframe(mig.csv)) : PasoInventory(e)

\* The choices among equal dates that the step's initialize_inventory made.
Elegidos ==
    {e \in UltimoStock(NormalizeDataframe(mig.csv)) :
        db' = InitializeInventory(db, NormalizeDataframe(mig.csv), e)}

\* C14: migrate_sales leaves every ledger row as it was and adds rows only
\* under ids the ledger did not hold; running it again, or the whole load
\* again on the same file, leaves the ledger as the first run left it.
C14_Replay ==
    [][/\ PasoSales =>
            /\ db.ventas \subseteq db'.ventas
            /\ \A v \in db'.ventas \ db.ventas : v.id_venta \notin Ids(db.ventas)
            /\ \A v, w \in db'.ventas : v.id_venta = w.id_venta => v = w
            /\ MigrateSales(db', NormalizeDataframe(mig.csv)).ventas = db'.ventas
       /\ FinDeCarga =>
            \A e \in Elegidos : Migrate(db', mig.csv, e).ventas = db'.ventas]_vars

\* V1 loaded, then V6 of the same id: the ledger keeps V1's order.
C14_Witness ==
    /\ hist.cargas = 2
    /\ mig.paso = 0
    /\ Cardinality(db.ventas) = 1
    /\ \E v \in db.ventas : v.id_venta = 1 /\ v.cantidad = 5 /\ v.stock_final = 15
    /\ db.productos["Lacteos"] # 0
    /\ \E k \in DOMAIN db.inventario : db.inventario[k] = 27

\* C15: after initialize_inventory every pair of the file's complete rows
\* has a snapshot row, its quantity the stock-after of a row of that pair
\* that carries the pair's latest date: of the only such row when there is
\* one.
C15_Latest ==
    [][FinDeCarga =>
        LET df == NormalizeDataframe(mig.csv)
        IN  \A i \in 1..Len(df) :
                LET k == <<db'.productos[df[i].producto], db'.ciudades[df[i].ciudad]>>
                    g == {j \in 1..Len(df) : df[j].ciudad = df[i].ciudad
                                              /\ df[j].producto = df[i].producto}
                    ult == {j \in g : \A x \in g : df[x].fecha <= df[j].fecha}
                IN  /\ k \in DOMAIN db'.inventario
                    /\ db'.inventario[k] \in {df[j].stock_final_producto : j \in ult}
                    /\ Cardinality(ult) = 1 =>
                          \A j \in ult : db'.inventario[k] = df[j].stock_final_producto]_vars

\* <<V1, V3>> loaded: (Frutas, Bogota) holds the 8 of V3, the later order,
\* not the 15 of V1.
C15_Witness ==
    /\ hist.cargas = 1
    /\ mig.paso = 0
    /\ Cardinality(db.ventas) = 1
    /\ \E v \in db.ventas : v.id_venta = 1 /\ v.stock_final = 15
    /\ db.productos["Frutas"] # 0 /\ db.ciudades["Bogota"] # 0
    /\ db.inventario[<<db.productos["Frutas"], db.ciudades["Bogota"]>>] = 8

\* C16: running initialize_inventory again on the same rows, or the whole
\* load again on the same file, with the same row first among equal dates,
\* leaves the same snapshot rows: same pairs, same quantities.
C16_InventoryIdempotent ==
    [][FinDeCarga =>
        \A e \in Elegidos :
            LET df == NormalizeDataframe(mig.csv)
                una == InitializeInventory(db', df, e)
            IN  /\ una.inventario = db'.inventario
                /\ InitializeInventory(una, df, e).inventario = db'.inventario
                /\ Migrate(db', mig.csv, e).inventario = db'.inventario]_vars

\* <<V1, V6>> loaded twice: two snapshot rows, (Lacteos, Cali) at 27, four
\* ids handed out for the two cities and four for the two snapshot rows.
C16_Witness ==
    /\ hist.cargas = 2
    /\ mig.paso = 0
    /\ Cardinality(DOMAIN db.inventario) = 2
    /\ db.seq_ciudades = 4
    /\ db.seq_inventario = 4
    /\ db.ciudades["Cali"] = 2 /\ db.productos["Lacteos"] = 2
    /\ db.inventario[<<2, 2>>] = 27
    /\ db.inventario[<<1, 1>>] = 15

\* C18 as stated: a complete row of a loaded file is either in the ledger
\* after the load or was skipped because its id was taken, so its id is in
\* the ledger either way (a load that ends has reported no error).
C18_SoloDuplicados ==
    [][FinDeCarga =>
        \A i \in 1..Len(NormalizeDataframe(mig.csv)) :
            NormalizeDataframe(mig.csv)[i].id_venta \in Ids(db'.ventas)]_vars


\* The ledger orders of the pair k = <<id_producto, id_ciudad>>.
C17_Pedidos(k) == {v \in db.ventas : v.id_producto = k[1] /\ v.id_ciudad = k[2]}

\* The most recent of them: latest date, highest id among that date.
C17_MasReciente(k) ==
    {v \in C17_Pedidos(k) :
        \A w \in C17_Pedidos(k) :
            \/ w.fecha < v.fecha
            \/ w.fecha = v.fecha /\ w.id_venta <= v.id_venta}

\* C17 as stated: every snapshot row whose pair has orders in the ledger
\* holds the stock-after of the most recent of those orders.
C17_SnapshotDelLedger ==
    \A k \in DOMAIN db.inventario :
        \A v \in C17_MasReciente(k) : db.inventario[k] = v.stock_final

\* C20 as stated: the customer of every ledger order has a row in clientes.
C20_ClienteExiste == \A v \in db.ventas : v.id_cliente \in db.clientes

\* C21 as stated: no ledger row is written for an order of 3 against a
\* snapshot of 8.
C21_SinFila == \A v \in db.ventas : ~(v.stock_inicial = 8 /\ v.cantidad = 3)

\* C21: an order of 3 against a snapshot of 8 meets no shortage prompt: the
\* submission goes straight to the commit phase, and its commit writes the
\* row with stock-before 8 and stock-after 5 and leaves the snapshot at 5.
C21_SinAviso ==
    /\ [](\A a \in Apps :
            (cur[a].cantidad = 3 /\ cur[a].stock_actual = 8) =>
                pc[a] # "Confirm" /\ ~cur[a].respuesta)
    /\ [][\A a \in Apps :
            /\ (pc[a] = "Editing" /\ pc'[a] # "Editing"
                  /\ cur'[a].cantidad = 3 /\ cur'[a].stock_actual = 8) => pc'[a] = "MaxId"
            /\ (CommitStep(a) /\ cur[a].cantidad = 3 /\ cur[a].stock_actual = 8) =>
                  /\ \E v \in db'.ventas \ db.ventas :
                        v.cantidad = 3 /\ v.stock_inicial = 8 /\ v.stock_final = 5
                  /\ db'.inventario[ClaveDe(cur[a])] = 5]_vars

\* The order of 3 committed against the snapshot of 8, the form back in
\* Editing.
C21_Witness ==
    /\ pc["ui1"] = "Editing"
    /\ hist.n = 1
    /\ \E v \in db.ventas : v.cantidad = 3 /\ v.stock_inicial = 8 /\ v.stock_final = 5
    /\ \E k \in DOMAIN db.inventario : db.inventario[k] = 5 /\ hist.base[k] = 8

\* The rows of a frame without the marks of their empty cells.
C22_Valores(f) ==
    [i \in 1..Len(f.filas) |->
        [c \in DOMAIN f.filas[i] \ {"nan"} |-> f.filas[i][c]]]

\* C22 as stated: the call leaves the caller's frame with the columns and
\* values it had, and returns exactly the rows without an empty cell, each
\* with fecha_entrega = fecha + tiempo_entrega_dias and ingreso_total =
\* cantidad * precio_unitario.
C22_SinEfectos ==
    [][NormalizeStep =>
        /\ frames'.df = frames.df
        /\ C22_Valores(frames'.clean_df)
              = NormalizeDataframe(frames.df.filas)]_vars

\* The orders registrar_pedido committed for the pair k.
C23_Pedidos(k) ==
    {v \in db.ventas : /\ v.estado_entrega = "En transito"
                        /\ v.id_producto = k[1] /\ v.id_ciudad = k[2]}

\* The order committed for the same pair just before v.
C23_Anterior(k, v) ==
    {w \in C23_Pedidos(k) :
        /\ w.id_venta < v.id_venta
        /\ \A x \in C23_Pedidos(k) : x.id_venta < v.id_venta => x.id_venta <= w.id_venta}

\* C23 as stated: when no order committed for a pair asked for more than the
\* stock it read, every commit lowers the pair's snapshot by the order's
\* quantity, every order's stock-before is the stock-after of the order
\* committed before it for the pair, and the snapshot is the stock at the
\* bulk load minus the sum of the committed quantities.
C23_SinFaltante ==
    /\ [](\A k \in DOMAIN db.inventario :
            (\A v \in C23_Pedidos(k) : v.cantidad <= v.stock_inicial) =>
                /\ \A v \in C23_Pedidos(k) :
                      \A w \in C23_Anterior(k, v) : v.stock_inicial = w.stock_final
                /\ db.inventario[k] = hist.base[k] - hist.pedido[k])
    /\ [][\A a \in Apps :
            (CommitStep(a) /\ cur[a].cantidad <= cur[a].stock_actual) =>
                db'.inventario[ClaveDe(cur[a])]
                    = db.inventario[ClaveDe(cur[a])] - cur[a].cantidad]_vars

\* C24: every snapshot quantity and the stock-after of every ledger row is
\* at least 0, whatever orders were submitted, confirmed shortages included.
C24_NoNegativo ==
    /\ \A k \in DOMAIN db.inventario : db.inventario[k] >= 0
    /\ \A v \in db.ventas : v.stock_final >= 0
    /\ \A a \in Apps : \A k \in DOMAIN txn[a].inventario : txn[a].inventario[k] >= 0

\* An order for more than the stock read was committed through the prompt:
\* its stock-after and the snapshot of its pair are 0.
C24_Witness ==
    \E v \in db.ventas :
        /\ v.estado_entrega = "En transito"
        /\ v.cantidad > v.stock_inicial
        /\ v.stock_final = 0
        /\ db.inventario[<<v.id_producto, v.id_ciudad>>] = 0

\* C25 as stated: a migrate that raises in one of its steps leaves the store
\* as it was before the call: no step of the run has committed a change.
C25_TodoONada == [][MigrarFalla => ~mig.escrito]_vars


====
